---- MODULE Spec2Model ----
(***************************************************************************)
(* A model of the alia data-graph engine (src/alia.hpp): data blocks,      *)
(* data nodes, named blocks with reference counting and garbage            *)
(* collection, scoped data blocks, and the traversal cursor; and of the    *)
(* system around it: event dispatch and routing regions, targeted events,  *)
(* refresh_system, and async operations with their completion callbacks.   *)
(*                                                                         *)
(* Pointers are modelled as follows.                                       *)
(*   - a data_block is addressed by [n, p]: n = 0 is graph.root_block,     *)
(*     n > 0 is the block embedded in named_block_node n; p is the path    *)
(*     of node-list positions leading to a nested data_block node.         *)
(*   - named_block_node and named_block_ref_node objects live in the       *)
(*     heaps `nodes` and `refs`, indexed by their address (a number).      *)
(*   - next_data_ptr is the number of nodes of the active block that the   *)
(*     cursor has passed; named_block_next_ptr is AddrOfUsed for           *)
(*     &traversal.used_named_blocks and r for &ref(r).next.                *)
(***************************************************************************)
EXTENDS Integers, Sequences, FiniteSets, TLC

\* ---------------------------------------------------------------- bounds
NumKeys == 3      \* number of distinct named-block ids the controller uses
MaxVal == 1       \* values the application stores in a slot
NumAbortKeys == 2 \* the same, where refresh passes may end with an exception
MaxThrows == 1    \* refresh passes that end with an exception

NULL == 0
Uninit == -1
AddrOfUsed == 0
Dangling == -2

Keys == 1..NumKeys
AbortKeys == 1..NumAbortKeys
Vals == 1..MaxVal

VARIABLES
    root_block,     \* data_graph::root_block
    maps,           \* naming maps of graph.map_list: map id -> (key -> node)
    nodes,          \* heap of named_block_node
    refs,           \* heap of named_block_ref_node
    t,              \* the data_traversal
    stack,          \* the live scoped_data_block objects, innermost last
    phase,          \* "idle", "pass", "unwinding"
    is_refresh,     \* event type of the pass is refresh_event
    err,            \* exception raised by the last pass
    nc,             \* the controller's naming_context (its map), per pass
    usedKeys,       \* ids requested so far in this pass
    ops,            \* requests made so far in this pass, with their results
    prevOps,        \* requests of the last refresh pass, with the slots
                    \* and nodes they returned, if it ran to its end,
                    \* <<>> otherwise
    snap,           \* the graph as it was when the pass, or the call of
                    \* delete_named_block, began
    throws,         \* refresh passes that ended with an exception so far
    calls,          \* the call stack of refresh_system and the dispatch
                    \* functions, each with the event traversal it runs
    refresh_needed, \* system::refresh_needed
    regions,        \* the routing_region objects: region -> its parent
    identity,       \* the node_identity objects: widget -> address
    captured,       \* the routable_node_id each widget captured last
    async_data,     \* the async_operation_data and its captured argument id
    argId,          \* the value_id of the argument of the async operation
    argHas,         \* the argument signal has a value
    cond,           \* the condition of the alia_if around apply
    controller,     \* system::controller: which controller the system runs
    apply_data,     \* the apply_result_data and its captured argument id
    pending,        \* report_result callbacks held by external code,
                    \* counted by the version they captured
    d,              \* what the outermost call in progress, or the last
                    \* one, has done so far
    mem,            \* the application's variables that identities by
                    \* reference and direct signals point at
    id_,            \* captured_id::id_ of one captured_id object
    key_data,       \* one keyed_data object
    lazy,           \* one lazy_apply2_signal object
    out,            \* the identities last compared and the outcome
    state,          \* one state_holder, and the last write_signal on a
                    \* signal made of it
    anim,           \* the external_interface, its tick counter, and the
                    \* animation requests since refresh_system was called
    qt              \* the Qt binding: qt_system::root, the layout nodes
                    \* and what the refresh pass in progress has done

datavars == <<root_block, maps, nodes, refs, t, stack, phase, is_refresh, err,
              nc, usedKeys, ops, prevOps, snap, throws>>

sysvars == <<calls, refresh_needed, regions, identity, captured, async_data,
             argId, argHas, cond, controller, apply_data, pending, d,
             mem, id_, key_data, lazy, out, state, anim, qt>>

\* what the application, not the engine, changes
env == <<argId, argHas, cond, controller, mem, id_, key_data, lazy, out,
         state, qt>>

\* the objects the programs on identities and signals work on
sigvars == <<mem, id_, key_data, lazy, out, state, qt>>

vars == <<datavars, sysvars>>

\* ------------------------------------------------------ data structures
\* struct data_block
EmptyBlock == [nodes |-> <<>>, cache_clear |-> TRUE, named_blocks |-> NULL]

\* struct typed_data_node<T>: type is the T it was created with
DataNode(type, val) == [type |-> type, val |-> val, block |-> EmptyBlock]

\* struct named_block_node
NewNamedBlockNode(k, m, manual) ==
    [id |-> k, reference_count |-> 0, active_count |-> 0,
     manual_delete |-> manual, map |-> m, block |-> EmptyBlock]

\* struct named_block_ref_node
NewRefNode(n) == [node |-> n, active |-> FALSE, next |-> NULL]

\* a data_traversal that has not been set up
UninitAddr == [n |-> Uninit, p |-> <<>>]
NoTraversal ==
    [active_block |-> UninitAddr, predicted_named_block |-> Uninit,
     used_named_blocks |-> Uninit, named_block_next_ptr |-> Uninit,
     next_data_ptr |-> Uninit, gc_enabled |-> FALSE,
     cache_clearing_enabled |-> FALSE]

RootAddr == [n |-> 0, p |-> <<>>]
NodeBlock(n) == [n |-> n, p |-> <<>>]
ChildAddr(a, i) == [a EXCEPT !.p = Append(@, i)]

Remove(f, x) == [y \in DOMAIN f \ {x} |-> f[y]]
Extend(f, x, v) == [y \in DOMAIN f \cup {x} |-> IF y = x THEN v ELSE f[y]]

RECURSIVE Descend(_, _)
Descend(b, p) ==
    IF p = <<>> THEN b ELSE Descend(b.nodes[Head(p)].block, Tail(p))

RECURSIVE Patch(_, _, _)
Patch(b, p, nb) ==
    IF p = <<>> THEN nb
    ELSE [b EXCEPT !.nodes[Head(p)].block = Patch(@, Tail(p), nb)]

\* the data_block at address a
BlockAt(S, a) ==
    Descend(IF a.n = 0 THEN S.root_block ELSE S.nodes[a.n].block, a.p)

\* assignment to the data_block at address a
SetBlock(S, a, nb) ==
    IF a.n = 0 THEN [S EXCEPT !.root_block = Patch(@, a.p, nb)]
    ELSE [S EXCEPT !.nodes[a.n].block = Patch(@, a.p, nb)]

\* operator new for the two heaps. A named_block_node is created only for
\* an id that its map does not hold, and leaves its map only when it is
\* freed, so (map, id) is an address no two live nodes share.
NewNodeId(S, m, k) == (m - 1) * NumKeys + k
NewRefId(S) == CHOOSE r \in 1..(Cardinality(DOMAIN S.refs) + 1) :
                    r \notin DOMAIN S.refs

\* ------------------------------------------ activation and cache clearing
activate(S, r) ==
    IF ~S.refs[r].active
    THEN [S EXCEPT !.nodes[S.refs[r].node].active_count = @ + 1,
                   !.refs[r].active = TRUE]
    ELSE S

RECURSIVE deactivate(_, _)
RECURSIVE deactivate_list(_, _)
RECURSIVE clear_cached_data_nodes(_, _, _)
RECURSIVE clear_cached_data(_, _)

deactivate(S, r) ==
    IF S.refs[r].active
    THEN LET n == S.refs[r].node
             S1 == [S EXCEPT !.nodes[n].active_count = @ - 1]
             S2 == IF S1.nodes[n].active_count = 0
                   THEN clear_cached_data(S1, NodeBlock(n))
                   ELSE S1
         IN [S2 EXCEPT !.refs[r].active = FALSE]
    ELSE S

\* for (i = block.named_blocks; i; i = i->next) deactivate(*i);
deactivate_list(S, r) ==
    IF r = NULL THEN S
    ELSE deactivate_list(deactivate(S, r), S.refs[r].next)

\* clear_cached_data(data_node* nodes), from position i on
clear_cached_data_nodes(S, a, i) ==
    LET b == BlockAt(S, a) IN
    IF i > Len(b.nodes) THEN S
    ELSE LET nd == b.nodes[i]
             S1 == IF nd.type = "cached"
                   THEN SetBlock(S, a, [b EXCEPT !.nodes[i].val = 0])
                   ELSE IF nd.type = "block"
                   THEN clear_cached_data(S, ChildAddr(a, i))
                   ELSE S
         IN clear_cached_data_nodes(S1, a, i + 1)

\* clear_cached_data(data_block& block)
clear_cached_data(S, a) ==
    IF ~BlockAt(S, a).cache_clear
    THEN LET S1 == clear_cached_data_nodes(S, a, 1)
             S2 == deactivate_list(S1, BlockAt(S1, a).named_blocks)
         IN SetBlock(S2, a, [BlockAt(S2, a) EXCEPT !.cache_clear = TRUE])
    ELSE S

\* ------------------------------------------------------------ destruction
RECURSIVE delete_ref(_, _)
RECURSIVE release_ref(_, _, _)
RECURSIVE delete_node(_, _)
RECURSIVE clear_data_block(_, _)
RECURSIVE delete_data_nodes(_, _, _)
RECURSIVE delete_named_block_ref_list(_, _)

\* ~named_block_ref_node that leaves the node in its map when the last
\* reference goes
delete_ref_keep_node(S, r) ==
    LET n == S.refs[r].node IN
    IF n = NULL THEN [S EXCEPT !.refs = Remove(@, r)]
    ELSE LET S1 == deactivate(S, r)
             S2 == [S1 EXCEPT !.nodes[n].reference_count = @ - 1]
         IN [S2 EXCEPT !.refs = Remove(@, r)]

\* ~named_block_ref_node after deactivate(*this), then free; n is the node
release_ref(S, r, n) ==
    LET S2 == [S EXCEPT !.nodes[n].reference_count = @ - 1]
        nd == S2.nodes[n]
        S3 == IF nd.reference_count = 0
              THEN IF nd.map # NULL
                   THEN IF ~nd.manual_delete
                        THEN delete_node(
                                 [S2 EXCEPT !.maps[nd.map][nd.id] = NULL], n)
                        ELSE clear_cached_data(S2, NodeBlock(n))
                   ELSE delete_node(S2, n)
              ELSE S2
    IN [S3 EXCEPT !.refs = Remove(@, r)]

\* delete of a named_block_ref_node: ~named_block_ref_node, then free
delete_ref(S, r) ==
    IF S.refs[r].node = NULL THEN [S EXCEPT !.refs = Remove(@, r)]
    ELSE release_ref(deactivate(S, r), r, S.refs[r].node)

\* delete of a named_block_node: ~data_block on its block, then free
delete_node(S, n) ==
    LET S1 == clear_data_block(S, NodeBlock(n))
    IN [S1 EXCEPT !.nodes = Remove(@, n)]

\* the loop of clear_data_block that deletes the data nodes; deleting a
\* typed_data_node<data_block> runs ~data_block on the nested block
delete_data_nodes(S, a, i) ==
    LET b == BlockAt(S, a) IN
    IF i > Len(b.nodes) THEN S
    ELSE LET S1 == IF b.nodes[i].type = "block"
                   THEN clear_data_block(S, ChildAddr(a, i))
                   ELSE S
         IN delete_data_nodes(S1, a, i + 1)

clear_data_block(S, a) ==
    LET S1 == delete_data_nodes(S, a, 1)
        S2 == SetBlock(S1, a, [BlockAt(S1, a) EXCEPT !.nodes = <<>>])
        S3 == delete_named_block_ref_list(S2, BlockAt(S2, a).named_blocks)
    IN SetBlock(S3, a, EmptyBlock)

delete_named_block_ref_list(S, head) ==
    IF head = NULL THEN S
    ELSE LET next == S.refs[head].next
         IN delete_named_block_ref_list(delete_ref(S, head), next)

\* --------------------------------------------------------- the traversal
\* get_data that never finds the node of an earlier pass
get_data_norevisit(S, type, init) ==
    LET a == S.t.active_block
        b == BlockAt(S, a)
    IN [S |-> SetBlock([S EXCEPT !.t.next_data_ptr = @ + 1], a,
                       [b EXCEPT !.nodes = Append(@, DataNode(type, init))]),
        is_new |-> TRUE, idx |-> Len(b.nodes) + 1]

\* get_data<T>(ctx, &ptr); init is the value a new node is given
get_data(S, type, init) ==
    LET a == S.t.active_block
        b == BlockAt(S, a)
        i == S.t.next_data_ptr + 1
    IN IF i <= Len(b.nodes)
       THEN [S |-> [S EXCEPT !.t.next_data_ptr = i],
             is_new |-> FALSE, idx |-> i]
       ELSE [S |-> SetBlock([S EXCEPT !.t.next_data_ptr = i], a,
                            [b EXCEPT !.nodes = Append(@, DataNode(type, init))]),
             is_new |-> TRUE, idx |-> i]

\* get_cached_data<T>(ctx, &ptr); v is the value the caller regenerates
get_cached_data(S, v) ==
    LET g == get_data(S, "cached", 0)
        a == S.t.active_block
        b == BlockAt(g.S, a)
    IN IF b.nodes[g.idx].val # 0
       THEN [S |-> g.S, is_new |-> FALSE, idx |-> g.idx]
       ELSE [S |-> SetBlock(g.S, a, [b EXCEPT !.nodes[g.idx].val = v]),
             is_new |-> TRUE, idx |-> g.idx]

\* scoped_data_block::begin
scoped_data_block_begin(S, a, kind) ==
    LET frame == [kind |-> kind,
                  old_active_block |-> S.t.active_block,
                  old_predicted_named_block |-> S.t.predicted_named_block,
                  old_used_named_blocks |-> S.t.used_named_blocks,
                  old_named_block_next_ptr |-> S.t.named_block_next_ptr,
                  old_next_data_ptr |-> S.t.next_data_ptr]
        S1 == [S EXCEPT !.stack = Append(@, frame),
                        !.t.active_block = a,
                        !.t.predicted_named_block = BlockAt(S, a).named_blocks,
                        !.t.used_named_blocks = NULL,
                        !.t.named_block_next_ptr = AddrOfUsed,
                        !.t.next_data_ptr = 0]
    IN SetBlock(S1, a, [BlockAt(S1, a) EXCEPT !.cache_clear = FALSE])

\* scoped_data_block::end that commits the used list and keeps the
\* references that were not reused
scoped_data_block_end_no_release(S, uncaught) ==
    LET f == S.stack[Len(S.stack)]
        a == S.t.active_block
        S1 == IF S.t.gc_enabled /\ ~uncaught
              THEN SetBlock(S, a, [BlockAt(S, a) EXCEPT
                                      !.named_blocks = S.t.used_named_blocks])
              ELSE S
    IN [S1 EXCEPT !.t.active_block = f.old_active_block,
                  !.t.predicted_named_block = f.old_predicted_named_block,
                  !.t.used_named_blocks = f.old_used_named_blocks,
                  !.t.named_block_next_ptr = f.old_named_block_next_ptr,
                  !.t.next_data_ptr = f.old_next_data_ptr,
                  !.stack = SubSeq(@, 1, Len(@) - 1)]

\* scoped_data_block::end that commits whether or not GC is enabled
scoped_data_block_end_always_commit(S, uncaught) ==
    LET f == S.stack[Len(S.stack)]
        a == S.t.active_block
        S1 == IF ~uncaught
              THEN delete_named_block_ref_list(
                       SetBlock(S, a, [BlockAt(S, a) EXCEPT
                                          !.named_blocks = S.t.used_named_blocks]),
                       S.t.predicted_named_block)
              ELSE S
    IN [S1 EXCEPT !.t.active_block = f.old_active_block,
                  !.t.predicted_named_block = f.old_predicted_named_block,
                  !.t.used_named_blocks = f.old_used_named_blocks,
                  !.t.named_block_next_ptr = f.old_named_block_next_ptr,
                  !.t.next_data_ptr = f.old_next_data_ptr,
                  !.stack = SubSeq(@, 1, Len(@) - 1)]

\* scoped_data_block::end; uncaught is std::uncaught_exception()
scoped_data_block_end(S, uncaught) ==
    LET f == S.stack[Len(S.stack)]
        a == S.t.active_block
        S1 == IF S.t.gc_enabled /\ ~uncaught
              THEN delete_named_block_ref_list(
                       SetBlock(S, a, [BlockAt(S, a) EXCEPT
                                          !.named_blocks = S.t.used_named_blocks]),
                       S.t.predicted_named_block)
              ELSE S
    IN [S1 EXCEPT !.t.active_block = f.old_active_block,
                  !.t.predicted_named_block = f.old_predicted_named_block,
                  !.t.used_named_blocks = f.old_used_named_blocks,
                  !.t.named_block_next_ptr = f.old_named_block_next_ptr,
                  !.t.next_data_ptr = f.old_next_data_ptr,
                  !.stack = SubSeq(@, 1, Len(@) - 1)]

\* retrieve_naming_map: a new naming_map_node is linked into graph.map_list
retrieve_naming_map(S) ==
    LET g == get_data(S, "map", Len(S.maps) + 1)
        S1 == IF g.is_new
              THEN [g.S EXCEPT !.maps = Append(@, [k \in Keys |-> NULL])]
              ELSE g.S
    IN [S |-> S1,
        map |-> BlockAt(S1, S1.t.active_block).nodes[g.idx].val]

\* record_usage
record_usage(S, ref) ==
    LET S1 == IF S.t.named_block_next_ptr = AddrOfUsed
              THEN [S EXCEPT !.t.used_named_blocks = ref]
              ELSE [S EXCEPT !.refs[S.t.named_block_next_ptr].next = ref]
        S2 == [S1 EXCEPT !.t.named_block_next_ptr = ref,
                         !.refs[ref].next = NULL]
    IN activate(S2, ref)

\* the map lookup of find_named_block: the node of (m, k), created if the
\* map does not hold it, with a new reference to it recorded
lookup_named_block(S, m, k, manual) ==
    LET found == S.maps[m][k]
        n == IF found = NULL THEN NewNodeId(S, m, k) ELSE found
        S1 == IF found = NULL
              THEN [S EXCEPT
                      !.nodes = Extend(@, n, NewNamedBlockNode(k, m, manual)),
                      !.maps[m][k] = n]
              ELSE S
        r == NewRefId(S1)
        S2 == [S1 EXCEPT !.refs = Extend(@, r, NewRefNode(n)),
                         !.nodes[n].reference_count = @ + 1]
    IN [S |-> record_usage(S2, r), node |-> n, thrown |-> FALSE]

\* find_named_block without the check of gc_enabled before the lookup
find_named_block_no_gc_check(S, m, k, manual) ==
    LET predicted == S.t.predicted_named_block IN
    IF /\ predicted # NULL
       /\ S.nodes[S.refs[predicted].node].id = k
       /\ S.nodes[S.refs[predicted].node].map = m
    THEN LET S1 == [S EXCEPT !.t.predicted_named_block = S.refs[predicted].next]
         IN [S |-> IF S.t.gc_enabled THEN record_usage(S1, predicted) ELSE S1,
             node |-> S.refs[predicted].node, thrown |-> FALSE]
    ELSE lookup_named_block(S, m, k, manual)

\* find_named_block that, with GC disabled, skips recorded blocks until it
\* finds the one asked for
RECURSIVE find_named_block_skipping(_, _, _, _)
find_named_block_skipping(S, m, k, manual) ==
    LET predicted == S.t.predicted_named_block IN
    IF /\ predicted # NULL
       /\ S.nodes[S.refs[predicted].node].id = k
       /\ S.nodes[S.refs[predicted].node].map = m
    THEN LET S1 == [S EXCEPT !.t.predicted_named_block = S.refs[predicted].next]
         IN [S |-> IF S.t.gc_enabled THEN record_usage(S1, predicted) ELSE S1,
             node |-> S.refs[predicted].node, thrown |-> FALSE]
    ELSE IF ~S.t.gc_enabled
    THEN IF predicted = NULL
         THEN [S |-> S, node |-> NULL, thrown |-> TRUE]
         ELSE find_named_block_skipping(
                  [S EXCEPT !.t.predicted_named_block = S.refs[predicted].next],
                  m, k, manual)
    ELSE lookup_named_block(S, m, k, manual)

\* find_named_block; thrown is named_block_out_of_order
find_named_block(S, m, k, manual) ==
    LET predicted == S.t.predicted_named_block IN
    IF /\ predicted # NULL
       /\ S.nodes[S.refs[predicted].node].id = k
       /\ S.nodes[S.refs[predicted].node].map = m
    THEN LET S1 == [S EXCEPT !.t.predicted_named_block = S.refs[predicted].next]
         IN [S |-> IF S.t.gc_enabled THEN record_usage(S1, predicted) ELSE S1,
             node |-> S.refs[predicted].node, thrown |-> FALSE]
    ELSE IF ~S.t.gc_enabled
    THEN [S |-> S, node |-> NULL, thrown |-> TRUE]
    ELSE lookup_named_block(S, m, k, manual)

\* scoped_data_traversal::begin followed by the assignment of
\* invoke_controller: gc_enabled = cache_clearing_enabled = is_refresh
scoped_data_traversal_begin(S, refresh) ==
    LET S1 == [S EXCEPT !.t.gc_enabled = TRUE,
                        !.t.cache_clearing_enabled = TRUE]
        S2 == scoped_data_block_begin(S1, RootAddr, "root")
        S3 == retrieve_naming_map(S2).S
    IN [S3 EXCEPT !.t.gc_enabled = refresh,
                  !.t.cache_clearing_enabled = refresh]

\* if_block::if_block that never clears the cache
if_block_never_clears(S, condition) ==
    LET g == get_data(S, "block", 0)
        a == ChildAddr(S.t.active_block, g.idx)
    IN IF condition THEN scoped_data_block_begin(g.S, a, "if") ELSE g.S

\* if_block::if_block
if_block(S, condition) ==
    LET g == get_data(S, "block", 0)
        a == ChildAddr(S.t.active_block, g.idx)
    IN IF condition THEN scoped_data_block_begin(g.S, a, "if")
       ELSE IF g.S.t.cache_clearing_enabled THEN clear_cached_data(g.S, a)
       ELSE g.S

\* ------------------------------------------------- addresses at rest
\* Between traversals no pointer to a named_block_ref_node exists outside
\* the graph, and the code never compares or orders such addresses. The
\* model therefore numbers the live named_block_ref_node objects afresh
\* whenever a data_traversal is destroyed: first those reachable from the
\* blocks' lists, in list order, then the unreachable ones. No pointer
\* leads to an unreachable object, so its next field is never read again:
\* it is recorded as Dangling.
Range(f) == {f[x] : x \in DOMAIN f}

RECURSIVE Pow2(_)
Pow2(n) == IF n = 0 THEN 1 ELSE 2 * Pow2(n - 1)

RECURSIVE ChainFrom(_, _, _)
ChainFrom(R, r, acc) ==
    IF r \notin DOMAIN R \/ r \in Range(acc) THEN acc
    ELSE ChainFrom(R, R[r].next, Append(acc, r))

RECURSIVE BlockRefs(_, _, _)
RECURSIVE NodeListRefs(_, _, _, _)
BlockRefs(R, b, acc) ==
    NodeListRefs(R, b.nodes, 1, ChainFrom(R, b.named_blocks, acc))
NodeListRefs(R, ns, i, acc) ==
    IF i > Len(ns) THEN acc
    ELSE NodeListRefs(R, ns, i + 1,
                      IF ns[i].type = "block"
                      THEN BlockRefs(R, ns[i].block, acc) ELSE acc)

RECURSIVE NodesRefs(_, _, _)
NodesRefs(S, D, acc) ==
    IF D = {} THEN acc
    ELSE LET n == CHOOSE y \in D : \A z \in D : y <= z
         IN NodesRefs(S, D \ {n}, BlockRefs(S.refs, S.nodes[n].block, acc))

\* the named_block_ref_node objects that some block's list leads to
Reachable(S) ==
    NodesRefs(S, DOMAIN S.nodes, BlockRefs(S.refs, S.root_block, <<>>))

RECURSIVE Sorted(_, _, _)
Sorted(R, D, acc) ==
    IF D = {} THEN acc
    ELSE LET Rank(r) == 4 * R[r].node + (IF R[r].active THEN 0 ELSE 2)
             x == CHOOSE y \in D : \A z \in D :
                      \/ Rank(y) < Rank(z)
                      \/ Rank(y) = Rank(z) /\ y <= z
         IN Sorted(R, D \ {x}, Append(acc, x))

RECURSIVE RenameBlock(_, _)
RenameBlock(b, ren) ==
    [nodes |-> [i \in 1..Len(b.nodes) |->
                   [b.nodes[i] EXCEPT !.block = RenameBlock(@, ren)]],
     cache_clear |-> b.cache_clear,
     named_blocks |-> ren[b.named_blocks]]

Compact(S) ==
    LET reach == Reachable(S)
        order == Sorted(S.refs, DOMAIN S.refs \ Range(reach), reach)
        new == [r \in DOMAIN S.refs |->
                   CHOOSE i \in 1..Len(order) : order[i] = r]
        ren == [r \in DOMAIN S.refs \cup {NULL} |->
                   IF r = NULL THEN NULL ELSE new[r]]
    IN [S EXCEPT
          !.root_block = RenameBlock(@, ren),
          !.nodes = [n \in DOMAIN S.nodes |->
                        [S.nodes[n] EXCEPT !.block = RenameBlock(@, ren)]],
          !.refs = [i \in 1..Len(order) |->
                        [S.refs[order[i]] EXCEPT
                            !.next = IF i <= Len(reach) THEN ren[@]
                                     ELSE Dangling]]]

\* the end of the life of the data_traversal
EndOfTraversal(S) == Compact([S EXCEPT !.t = NoTraversal])

\* ------------------------------------------------ the controller's shape
\* The controller is
\*     naming_context nc(ctx);
\*     for (k : items) {
\*         named_block nb(nc, make_id(k));
\*         // an event handler that may call abort_traversal
\*         if (get_data(ctx, &state)) *state = v;
\*         get_cached_data(ctx, &cache);
\*     }
\* where items, the application's state, is any list of distinct ids and
\* may differ from pass to pass. get_data asserts that a position of a block
\* is asked for with the same type on every pass.
SlotType(a, i) ==
    IF a = RootAddr THEN "map"
    ELSE IF i = 1 THEN "state" ELSE "cached"

Cur == [root_block |-> root_block, maps |-> maps, nodes |-> nodes,
        refs |-> refs, t |-> t, stack |-> stack]

Install(S) ==
    /\ root_block' = S.root_block
    /\ maps' = S.maps
    /\ nodes' = S.nodes
    /\ refs' = S.refs
    /\ t' = S.t
    /\ stack' = S.stack

Graph(S) == [root_block |-> S.root_block, maps |-> S.maps,
             nodes |-> S.nodes, refs |-> S.refs]

Op(name, arg, is_new, res) ==
    [op |-> name, arg |-> arg, is_new |-> is_new, res |-> res]

\* the requests of a pass without what they found
Requests(o) ==
    [i \in 1..Len(o) |-> [op |-> o[i].op, arg |-> o[i].arg, res |-> o[i].res]]

AtRoot == phase = "pass" /\ Len(stack) = 1 /\ nc # NULL

\* ----------------------------------------------------------------- Init
\* the data graph and the traversal state after construction
DataInit ==
    /\ root_block = EmptyBlock
    /\ maps = <<>>
    /\ nodes = <<>>
    /\ refs = <<>>
    /\ t = NoTraversal
    /\ stack = <<>>
    /\ phase = "idle"
    /\ is_refresh = FALSE
    /\ err = "none"
    /\ nc = NULL
    /\ usedKeys = {}
    /\ ops = <<>>
    /\ prevOps = <<>>
    /\ snap = [root_block |-> EmptyBlock, maps |-> <<>>, nodes |-> <<>>,
               refs |-> <<>>]
    /\ throws = 0

\* -------------------------------------------------------------- actions
\* invoke_controller up to the call of the controller
BeginTraversal(refresh) ==
    /\ UNCHANGED sysvars
    /\ phase = "idle"
    /\ Install(scoped_data_traversal_begin(Cur, refresh))
    /\ phase' = "pass"
    /\ is_refresh' = refresh
    /\ err' = "none"
    /\ nc' = NULL
    /\ usedKeys' = {}
    /\ ops' = <<>>
    /\ snap' = Graph(Cur)
    /\ UNCHANGED <<prevOps, throws>>

\* naming_context nc(ctx): the first statement of the controller
NamingContextBegin ==
    /\ UNCHANGED sysvars
    /\ phase = "pass"
    /\ nc = NULL
    /\ LET r == retrieve_naming_map(Cur)
       IN /\ Install(r.S)
          /\ nc' = r.map
    /\ UNCHANGED <<phase, is_refresh, err, usedKeys, ops, prevOps, snap,
                   throws>>

\* one iteration of the loop for an id not used yet in this pass:
\*     named_block nb(nc, make_id(k));     find_named_block, which may throw,
\*                                         then scoped_data_block::begin
\*     if (get_data(ctx, &state)) *state = v;
\*     get_cached_data(ctx, &cache);
\*     ~named_block                        scoped_data_block::end
NamedBlock(k, v) ==
    /\ UNCHANGED sysvars
    /\ AtRoot
    /\ k \notin usedKeys
    /\ LET f == find_named_block(Cur, nc, k, FALSE)
           b == scoped_data_block_begin(f.S, NodeBlock(f.node), "named")
           g == get_data(b, "state", v)
           before == Len(BlockAt(g.S, g.S.t.active_block).nodes)
           c == get_cached_data(g.S, 1)
       IN IF f.thrown
          THEN /\ Install(f.S)
               /\ phase' = "unwinding"
               /\ err' = "named_block_out_of_order"
               /\ ops' = Append(ops, Op("named_block", k, FALSE, NULL))
          ELSE /\ Install(scoped_data_block_end(c.S, FALSE))
               /\ phase' = phase
               /\ err' = err
               /\ ops' = ops \o
                    <<Op("named_block", k, f.node \notin DOMAIN nodes, f.node),
                      Op("get_data", 0, g.is_new, g.idx),
                      Op("get_cached_data", 0, c.idx > before, c.idx),
                      Op("end", 0, FALSE, 0)>>
    /\ usedKeys' = usedKeys \cup {k}
    /\ UNCHANGED <<is_refresh, nc, prevOps, snap, throws>>

\* an iteration in which the handler throws: the named block is found and
\* begun, and the exception leaves the body before get_data
NamedBlockThrow(k) ==
    /\ UNCHANGED sysvars
    /\ AtRoot
    /\ k \notin usedKeys
    /\ LET f == find_named_block(Cur, nc, k, FALSE)
       IN /\ ~f.thrown
          /\ Install(scoped_data_block_begin(f.S, NodeBlock(f.node), "named"))
          /\ ops' = Append(ops, Op("named_block", k,
                                   f.node \notin DOMAIN nodes, f.node))
    /\ phase' = "unwinding"
    /\ err' = "exception"
    /\ usedKeys' = usedKeys \cup {k}
    /\ UNCHANGED <<is_refresh, nc, prevOps, snap>>

\* abort_traversal(ctx) called by the handler of item k: handlers run in
\* passes for events other than refresh_event
HandlerAborts(k) ==
    /\ ~is_refresh
    /\ NamedBlockThrow(k)
    /\ UNCHANGED throws

\* an exception thrown in the body of item k in a refresh pass
BodyThrowsInRefresh(k) ==
    /\ is_refresh
    /\ throws < MaxThrows
    /\ NamedBlockThrow(k)
    /\ throws' = throws + 1

\* the controller returns: scoped_data_traversal::end
EndTraversal ==
    /\ UNCHANGED sysvars
    /\ AtRoot
    /\ Install(EndOfTraversal(scoped_data_block_end(Cur, FALSE)))
    /\ phase' = "idle"
    /\ nc' = NULL
    /\ prevOps' = IF is_refresh THEN Requests(ops) ELSE prevOps
    /\ UNCHANGED <<is_refresh, err, usedKeys, ops, snap, throws>>

\* abort_traversal(ctx), or any other exception, between two iterations in
\* a pass for an event other than refresh_event
Throw ==
    /\ UNCHANGED sysvars
    /\ phase = "pass"
    /\ nc # NULL
    /\ ~is_refresh
    /\ phase' = "unwinding"
    /\ err' = "exception"
    /\ UNCHANGED <<root_block, maps, nodes, refs, t, stack, is_refresh, nc,
                   usedKeys, ops, prevOps, snap, throws>>

\* the same in a refresh pass
ThrowInRefresh ==
    /\ UNCHANGED sysvars
    /\ phase = "pass"
    /\ nc # NULL
    /\ is_refresh
    /\ throws < MaxThrows
    /\ phase' = "unwinding"
    /\ err' = "exception"
    /\ throws' = throws + 1
    /\ UNCHANGED <<root_block, maps, nodes, refs, t, stack, is_refresh, nc,
                   usedKeys, ops, prevOps, snap>>

\* stack unwinding runs ~scoped_data_block of the innermost live block
Unwind ==
    /\ UNCHANGED sysvars
    /\ phase = "unwinding"
    /\ LET S == scoped_data_block_end(Cur, TRUE)
       IN IF Len(stack) = 1
          THEN /\ Install(EndOfTraversal(S))
               /\ phase' = "idle"
               /\ nc' = NULL
               /\ prevOps' = IF is_refresh THEN <<>> ELSE prevOps
          ELSE /\ Install(S)
               /\ UNCHANGED <<phase, nc, prevOps>>
    /\ UNCHANGED <<is_refresh, err, usedKeys, ops, snap, throws>>

\* ================================================= tracked control flow
\* bounds
NumFlowKeys == 1  \* distinct named-block ids the second controller uses
MaxIter == 2      \* iterations of the tracked loop in one pass

FlowKeys == 1..NumFlowKeys
Iters == 0..MaxIter

\* The second controller of the data graph is
\*     alia_if (c) {
\*         if (get_data(ctx, &state)) *state = v;
\*         get_cached_data(ctx, &cache);
\*         alia_if (c2) { get_cached_data(ctx, &inner); } alia_end
\*         naming_context nc(ctx);
\*         if (k) {
\*             named_block nb(nc, make_id(k), manual_delete(manual));
\*             if (get_data(ctx, &state)) *state = v;
\*             get_cached_data(ctx, &cache);
\*         }
\*     } alia_end
\*     alia_for (i = 0; i != n; ++i) {
\*         if (get_data(ctx, &state)) *state = v;
\*     } alia_end
\* where c, c2, k, manual, n and v are the application's state, which event
\* handlers may change at any time, between passes and within a pass.

\* delete_named_block that clears the flag and frees nothing
RECURSIVE delete_named_block_flag_only(_, _, _)
delete_named_block_flag_only(S, k, m) ==
    IF m > Len(S.maps) THEN S
    ELSE LET n == S.maps[m][k]
             S1 == IF n = NULL THEN S
                   ELSE [S EXCEPT !.nodes[n].manual_delete = FALSE]
         IN delete_named_block_flag_only(S1, k, m + 1)

\* delete_named_block that frees the node and leaves the entry of the map
RECURSIVE delete_named_block_keep_entry(_, _, _)
delete_named_block_keep_entry(S, k, m) ==
    IF m > Len(S.maps) THEN S
    ELSE LET n == S.maps[m][k]
             S1 == IF n = NULL THEN S
                   ELSE IF S.nodes[n].reference_count # 0
                   THEN [S EXCEPT !.nodes[n].manual_delete = FALSE]
                   ELSE delete_node(S, n)
         IN delete_named_block_keep_entry(S1, k, m + 1)

\* delete_named_block(graph, id), the maps of graph.map_list from m on
RECURSIVE delete_named_block_from(_, _, _)
delete_named_block_from(S, k, m) ==
    IF m > Len(S.maps) THEN S
    ELSE LET n == S.maps[m][k]
             S1 == IF n = NULL THEN S
                   ELSE IF S.nodes[n].reference_count # 0
                   THEN [S EXCEPT !.nodes[n].manual_delete = FALSE]
                   ELSE delete_node([S EXCEPT !.maps[m][k] = NULL], n)
         IN delete_named_block_from(S1, k, m + 1)

delete_named_block(S, k) == delete_named_block_from(S, k, 1)

\* the iterations of alia_for: each begins a scoped_data_block on
\* looper.block(), calls loop_block::next, which takes the block of the
\* next iteration from the block of this one, and runs the body
\* the data of a block of the controller:
\*     if (get_data(ctx, &state)) *state = v; get_cached_data(ctx, &cache);
block_data(S, v) == get_cached_data(get_data(S, "state", v).S, 1).S

\* the iterations of the loop that complete: each is
\*     _alia_scope.begin(traversal, looper.block()); looper.next();
\* followed by the data of the body and by ~scoped_data_block
RECURSIVE loop_iterations(_, _, _, _)
loop_iterations(S, block_, n, v) ==
    IF n = 0 THEN [S |-> S, block_ |-> block_]
    ELSE LET b == scoped_data_block_begin(S, block_, "loop")
             next == get_data(b, "block", 0)
         IN loop_iterations(
                scoped_data_block_end(block_data(next.S, v), FALSE),
                ChildAddr(block_, next.idx), n - 1, v)

\* an iteration whose body throws before it asks for data: the scope of
\* the iteration ends while the exception is in flight
loop_iteration_throws(l) ==
    LET next == get_data(scoped_data_block_begin(l.S, l.block_, "loop"),
                         "block", 0)
    IN [S |-> scoped_data_block_end(next.S, TRUE),
        block_ |-> ChildAddr(l.block_, next.idx)]

\* ~loop_block that clears the block even while an exception is in flight
loop_block_end_always(l, uncaught) == clear_data_block(l.S, l.block_)

\* ~loop_block; uncaught is std::uncaught_exception()
loop_block_end(l, uncaught) ==
    IF ~uncaught THEN clear_data_block(l.S, l.block_) ELSE l.S

\* loop_block::loop_block is get_data(traversal, &block_); g is what it
\* returned and a the block that was active
loop_block_begin(g, a, n, v) ==
    loop_iterations(g.S, ChildAddr(a, g.idx), n, v)

\* alia_for (...) { ... } alia_end
loop_block(S, n, v) ==
    loop_block_end(
        loop_block_begin(get_data(S, "block", 0), S.t.active_block, n, v),
        FALSE)

\* alia_for (...) { ... } alia_end whose body throws in the iteration
\* that follows n iterations
loop_block_throws(S, n, v) ==
    loop_block_end(
        loop_iteration_throws(
            loop_block_begin(get_data(S, "block", 0), S.t.active_block, n, v)),
        TRUE)


\* alia_if (c2) { get_cached_data(ctx, &inner); } alia_end, from the
\* construction of the if_block on
inner_if_body(S, c2) ==
    IF c2 THEN scoped_data_block_end(get_cached_data(S, 1).S, FALSE) ELSE S

inner_if(S, c2) == inner_if_body(if_block(S, c2), c2)

\* named_block nb(...) from the return of find_named_block on, its body
\* and ~named_block
named_block_found(f, v) ==
    IF f.thrown THEN [S |-> f.S, thrown |-> TRUE]
    ELSE [S |-> scoped_data_block_end(
                    block_data(scoped_data_block_begin(
                                   f.S, NodeBlock(f.node), "named"), v),
                    FALSE),
          thrown |-> FALSE]

\* alia_end of the outer alia_if, which an exception skips
outer_if_end(x) ==
    IF x.thrown THEN x ELSE [x EXCEPT !.S = scoped_data_block_end(@, FALSE)]

\* the outer alia_if from naming_context nc(ctx) on; r is what
\* retrieve_naming_map returned
outer_if_named(r, k, manual, v) ==
    IF k = 0 THEN outer_if_end([S |-> r.S, thrown |-> FALSE])
    ELSE outer_if_end(
             named_block_found(find_named_block(r.S, r.map, k, manual), v))

\* the outer alia_if from the construction of its if_block on
outer_if_body(S, c, c2, k, manual, v) ==
    IF ~c THEN [S |-> S, thrown |-> FALSE]
    ELSE outer_if_named(retrieve_naming_map(inner_if(block_data(S, v), c2)),
                        k, manual, v)

outer_if(S, c, c2, k, manual, v) ==
    outer_if_body(if_block(S, c), c, c2, k, manual, v)

\* the block of the outer alia_if, the second node of the root block
OuterIf(G) == IF Len(G.root_block.nodes) < 2 THEN EmptyBlock
              ELSE G.root_block.nodes[2].block

\* the block of the tracked loop, the third node of the root block
Loop(G) == IF Len(G.root_block.nodes) < 3 THEN EmptyBlock
           ELSE G.root_block.nodes[3].block

\* what get_data handed to the body of the outer alia_if: whether the node
\* is new, and the value the body then finds in it
FlowIfDone(x, c) ==
    /\ Install(x.S)
    /\ ops' = <<Op("if", c, c /\ OuterIf(Cur).nodes = <<>>,
                   IF c THEN OuterIf(x.S).nodes[1].val ELSE NULL)>>
    /\ phase' = IF x.thrown THEN "unwinding" ELSE phase
    /\ err' = IF x.thrown THEN "named_block_out_of_order" ELSE err

\* the first statement of the controller
FlowIf(c, c2, k, manual, v) ==
    /\ UNCHANGED sysvars
    /\ phase = "pass"
    /\ Len(ops) = 0
    /\ FlowIfDone(outer_if(Cur, c, c2, k, manual, v), c)
    /\ usedKeys' = IF c /\ k # 0 THEN {k} ELSE {}
    /\ UNCHANGED <<is_refresh, nc, prevOps, snap, throws>>

\* the second statement of the controller
FlowLoop(n, v) ==
    /\ UNCHANGED sysvars
    /\ phase = "pass"
    /\ Len(ops) = 1
    /\ Install(loop_block(Cur, n, v))
    /\ ops' = Append(ops, Op("for", n, FALSE, v))
    /\ UNCHANGED <<phase, is_refresh, err, nc, usedKeys, prevOps, snap,
                   throws>>

\* the loop of the controller, whose body throws after n iterations
FlowLoopThrows(n, v) ==
    /\ UNCHANGED sysvars
    /\ phase = "pass"
    /\ Len(ops) = 1
    /\ Install(loop_block_throws(Cur, n, v))
    /\ ops' = Append(ops, Op("for_throw", n, FALSE, v))
    /\ phase' = "unwinding"
    /\ UNCHANGED <<is_refresh, err, nc, usedKeys, prevOps, snap, throws>>

\* the controller returns: scoped_data_traversal::end
FlowEnd ==
    /\ UNCHANGED sysvars
    /\ phase = "pass"
    /\ Len(ops) = 2
    /\ Install(EndOfTraversal(scoped_data_block_end(Cur, FALSE)))
    /\ phase' = "idle"
    /\ UNCHANGED <<is_refresh, err, nc, usedKeys, ops, prevOps, snap, throws>>

\* --- alia_switch
\* The controller with the tracked switch is
\*     alia_switch (x) { alia_case (1): D  ...  alia_case (NumCases): D }
\*     alia_end
\* where D is the data of block_data; x = 0 stands for a value that is
\* no case of the switch.
NumCases == 2
Cases == 1..NumCases

\* activate_case that begins a named block without manual_delete
activate_case_auto(r, id, v) ==
    named_block_found(find_named_block(r.S, r.map, id, FALSE), v)

\* switch_block::activate_case(id), the data of the case and the end of
\* the named block; r is what nc_.begin(ctx) returned
activate_case(r, id, v) ==
    named_block_found(find_named_block(r.S, r.map, id, TRUE), v)

\* switch_block _alia_switch_block(ctx); switch (x) { ... }
switch_block(S, x, v) ==
    IF x = 0 THEN [S |-> retrieve_naming_map(S).S, thrown |-> FALSE]
    ELSE activate_case(retrieve_naming_map(S), x, v)

SwitchDone(r, x, v) ==
    /\ Install(r.S)
    /\ ops' = <<Op("switch", x, FALSE, v)>>
    /\ phase' = IF r.thrown THEN "unwinding" ELSE phase
    /\ err' = IF r.thrown THEN "named_block_out_of_order" ELSE err

\* the controller runs its switch on the value x
Switch(x, v) ==
    /\ UNCHANGED sysvars
    /\ phase = "pass"
    /\ Len(ops) = 0
    /\ SwitchDone(switch_block(Cur, x, v), x, v)
    /\ usedKeys' = IF x # 0 THEN {x} ELSE {}
    /\ UNCHANGED <<is_refresh, nc, prevOps, snap, throws>>

\* the controller returns: scoped_data_traversal::end
SwitchEnd ==
    /\ UNCHANGED sysvars
    /\ phase = "pass"
    /\ Len(ops) = 1
    /\ Install(EndOfTraversal(scoped_data_block_end(Cur, FALSE)))
    /\ phase' = "idle"
    /\ UNCHANGED <<is_refresh, err, nc, usedKeys, ops, prevOps, snap, throws>>

\* the application calls delete_named_block between two passes
DeleteNamedBlock(k) ==
    /\ UNCHANGED sysvars
    /\ phase = "idle"
    /\ Install(delete_named_block(Cur, k))
    /\ ops' = <<Op("delete_named_block", k, FALSE, NULL)>>
    /\ snap' = Graph(Cur)
    /\ UNCHANGED <<phase, is_refresh, err, nc, usedKeys, prevOps, throws>>

\* ============================================================ the system
\* bounds
MaxPending == 2   \* report_result callbacks held by external code at once
MaxVersion == 2   \* async_operation_data::version
MaxArgId == 2     \* distinct value_ids the argument of async takes

\* The system runs one of three controllers. The first:
\*     {
\*         scoped_routing_region r1(ctx);
\*         widget(ctx, 1);
\*         { scoped_routing_region r2(ctx); widget(ctx, 2); }
\*         widget(ctx, 3);
\*     }
\*     { scoped_routing_region r3(ctx); widget(ctx, 4); }
\* where widget(ctx, n) is
\*     node_id id = get_node_id(ctx);
\*     on_refresh(ctx, [&](auto ctx) {
\*         captured[n] = make_routable_node_id(ctx, id); });
\*     on_targeted_event<click_event>(ctx, id, handler_n);
Program ==
    << [op |-> "region_begin", arg |-> 1],
       [op |-> "widget", arg |-> 1],
       [op |-> "region_begin", arg |-> 2],
       [op |-> "widget", arg |-> 2],
       [op |-> "region_end", arg |-> 2],
       [op |-> "widget", arg |-> 3],
       [op |-> "region_end", arg |-> 1],
       [op |-> "region_begin", arg |-> 3],
       [op |-> "widget", arg |-> 4],
       [op |-> "region_end", arg |-> 3] >>

\* The second controller:
\*     async<Result>(ctx, launcher, arg);
Async == << [op |-> "async", arg |-> 0] >>

\* The third controller:
\*     alia_if (cond) { apply(ctx, f, arg); }
Signals == << [op |-> "if_apply", arg |-> 0] >>

\* The fourth controller:
\*     alia_if (cond) { widget(ctx, 1); }
\* where the widget captures its routable_node_id once:
\*     node_id id = get_node_id(ctx);
\*     on_refresh(ctx, [&](auto ctx) {
\*         if (!is_valid(captured[1]))
\*             captured[1] = make_routable_node_id(ctx, id); });
\*     on_targeted_event<click_event>(ctx, id, handler_1);
Node == << [op |-> "if_widget", arg |-> 1] >>

\* The fifth controller is a widget that animates: in each pass it
\* calls request_animation_refresh(ctx) any number of times and
\* get_raw_animation_ticks_left(ctx, end_tick) for any end_tick.
Animation == << [op |-> "animate", arg |-> 1] >>

\* the code of system::controller
Code(c) ==
    IF c = "routing" THEN Program ELSE IF c = "async" THEN Async
    ELSE IF c = "node" THEN Node
    ELSE IF c = "anim" THEN Animation ELSE Signals

Widgets == {Program[i].arg : i \in {j \in DOMAIN Program : Program[j].op = "widget"}}
RegionIds ==
    {Program[i].arg : i \in {j \in DOMAIN Program : Program[j].op = "region_begin"}}
Versions == 0..MaxVersion
ArgIds == 1..MaxArgId

\* struct routable_node_id, and null_node_id
null_node_id == [id |-> NULL, region |-> NULL]
is_valid(id) == id.id # NULL

\* no event_traversal: the function is not inside route_event
NoTrav ==
    [event_type |-> "none", targeted |-> FALSE, target_id |-> NULL,
     path_to_target |-> <<>>, active_region |-> NULL, scopes |-> <<>>,
     pc |-> 0, gc_enabled |-> FALSE, cache_clearing_enabled |-> FALSE]

\* the event_traversal that impl::dispatch_event and
\* impl::dispatch_targeted_event set up, and the data_traversal flags that
\* invoke_controller sets; pc is the controller's position
invoke_controller(event_type, targeted, target_id, path) ==
    [event_type |-> event_type, targeted |-> targeted, target_id |-> target_id,
     path_to_target |-> path, active_region |-> NULL, scopes |-> <<>>,
     pc |-> 1,
     gc_enabled |-> event_type = "refresh_event",
     cache_clearing_enabled |-> event_type = "refresh_event"]

\* route_event_: the path from the root region to the target
RECURSIVE route_event_(_, _, _)
route_event_(R, target, path) ==
    IF target # NULL THEN route_event_(R, R[target], <<target>> \o path)
    ELSE path

\* one activation of refresh_system, dispatch_event or
\* dispatch_targeted_event on the call stack
Activation(fn, stage, caller, trav) ==
    [fn |-> fn, stage |-> stage, caller |-> caller, trav |-> trav]

\* the record kept of the outermost call
NoD ==
    [fn |-> "none", target |-> NULL, handled |-> <<>>, after |-> 0,
     event_end |-> "none", begun |-> 0, done |-> 0, gc |-> TRUE,
     propagated |-> "none", returned |-> FALSE, nested |-> FALSE]

CurSys ==
    [calls |-> calls, refresh_needed |-> refresh_needed, regions |-> regions,
     identity |-> identity, captured |-> captured, async_data |-> async_data,
     apply_data |-> apply_data, pending |-> pending, d |-> d, anim |-> anim]

InstallSys(Y) ==
    /\ calls' = Y.calls
    /\ refresh_needed' = Y.refresh_needed
    /\ regions' = Y.regions
    /\ identity' = Y.identity
    /\ captured' = Y.captured
    /\ async_data' = Y.async_data
    /\ apply_data' = Y.apply_data
    /\ pending' = Y.pending
    /\ d' = Y.d
    /\ anim' = Y.anim

Top(Y) == Y.calls[Len(Y.calls)]
Pop(q) == SubSeq(q, 1, Len(q) - 1)

\* --- animation timing
\* millisecond_count and int are scaled down to TickBits bits
TickBits == 3
MaxRequests == 2

Ticks == 0..(Pow2(TickBits) - 1)

\* the signed distances of less than half the range of the counter
Deltas == (1 - Pow2(TickBits - 1))..(Pow2(TickBits - 1) - 1)

NoTicksLeft == [delta |-> 0, left |-> 0, requested |-> FALSE,
                refresh |-> FALSE, asked |-> FALSE]

\* no external_interface, or one whose tick counter starts anywhere;
\* requests and external_calls count the calls of
\* request_animation_refresh and of external->request_animation_refresh
\* since refresh_system was last called
NoAnim == [external |-> FALSE, clock |-> 0, requests |-> 0,
           external_calls |-> 0, result |-> NoTicksLeft]

AnimStart(c) ==
    IF c = "anim" THEN {[NoAnim EXCEPT !.external = e] : e \in BOOLEAN}
    ELSE {NoAnim}

\* request_animation_refresh that calls the external interface each time
request_animation_refresh_each(Y) ==
    [Y EXCEPT !.refresh_needed = TRUE,
              !.anim.requests = @ + 1,
              !.anim.external_calls = IF Y.anim.external THEN @ + 1 ELSE @]

\* request_animation_refresh(ctx)
request_animation_refresh(Y) ==
    IF ~Y.refresh_needed
    THEN [Y EXCEPT !.refresh_needed = TRUE,
                   !.anim.requests = @ + 1,
                   !.anim.external_calls = IF Y.anim.external THEN @ + 1 ELSE @]
    ELSE [Y EXCEPT !.anim.requests = @ + 1]

\* int(x) for an unsigned x
to_int(x) == IF x >= Pow2(TickBits - 1) THEN x - Pow2(TickBits) ELSE x

\* timing.tick_counter, which invoke_controller read from the clock when
\* the pass began; the clock does not advance during a pass
tick_counter(Y) == Y.anim.clock

\* is_refresh_event(ctx)
is_refresh_event(Y) == Top(Y).trav.event_type = "refresh_event"

\* get_raw_animation_ticks_left that tests end_time > tick_counter
ticks_remaining_compared(Y, end_time) ==
    IF end_time > tick_counter(Y) THEN end_time - tick_counter(Y) ELSE 0

\* int ticks_remaining = int(end_time - tick_counter)
ticks_remaining(Y, end_time) ==
    to_int((end_time - tick_counter(Y)) % Pow2(TickBits))

\* get_raw_animation_ticks_left(ctx, end_time): the state it leaves and
\* the value it returns
get_raw_animation_ticks_left(Y, end_time) ==
    IF ticks_remaining(Y, end_time) > 0
    THEN [Y |-> IF is_refresh_event(Y) THEN request_animation_refresh(Y)
                ELSE Y,
          left |-> ticks_remaining(Y, end_time) % Pow2(TickBits)]
    ELSE [Y |-> Y, left |-> 0]

\* refresh_system
refresh_system(Y, caller) ==
    LET tr == invoke_controller("refresh_event", FALSE, NULL, <<>>)
    IN [Y EXCEPT
          !.refresh_needed = FALSE,
          !.anim.requests = 0,
          !.anim.external_calls = 0,
          !.calls = Append(@, Activation("refresh_system", "refresh", caller, tr)),
          !.d.begun = @ + 1,
          !.d.gc = @ /\ tr.gc_enabled /\ tr.cache_clearing_enabled]

\* the return of refresh_system to its caller: a dispatch function returns
\* in turn; a launcher that called report_result returns into async, and
\* the traversal that called it goes on
RECURSIVE return_to_caller(_)
return_to_caller(Y) ==
    IF Y.calls = <<>> THEN [Y EXCEPT !.d.returned = TRUE]
    ELSE IF Top(Y).trav = NoTrav
    THEN return_to_caller([Y EXCEPT !.calls = Pop(@)])
    ELSE [Y EXCEPT !.calls[Len(Y.calls)].trav.pc = @ + 1]

\* dispatch functions that start refresh_system while the event traversal
\* is still on the stack
route_event_returns_early_refresh(Y) ==
    LET i == Len(Y.calls)
        c == Y.calls[i]
    IN IF c.fn = "refresh_system"
       THEN return_to_caller([Y EXCEPT !.calls = Pop(@)])
       ELSE refresh_system([Y EXCEPT !.calls[i].stage = "refresh"], c.fn)

\* what follows impl::route_event in the function that called it:
\* refresh_system returns; dispatch_event and dispatch_targeted_event call
\* refresh_system
route_event_returns(Y) ==
    LET i == Len(Y.calls)
        c == Y.calls[i]
    IN IF c.fn = "refresh_system"
       THEN return_to_caller([Y EXCEPT !.calls = Pop(@)])
       ELSE refresh_system([Y EXCEPT !.calls[i].trav = NoTrav,
                                     !.calls[i].stage = "refresh"], c.fn)

\* route_event without its handler for traversal_aborted: the exception
\* leaves the dispatch function
route_event_no_catch(Y) ==
    [Y EXCEPT !.calls = <<>>,
              !.d.propagated = "traversal_aborted",
              !.d.returned = TRUE]

\* route_event when the controller throws traversal_aborted: the handler
\* catch (traversal_aborted&) { } ends the traversal
route_event_catch(Y) ==
    route_event_returns(
        IF Top(Y).stage = "event" THEN [Y EXCEPT !.d.event_end = "aborted"]
        ELSE Y)

\* route_event when the controller returns
route_event_done(Y) ==
    route_event_returns(
        IF Top(Y).stage = "event" THEN [Y EXCEPT !.d.event_end = "completed"]
        ELSE [Y EXCEPT !.d.done = @ + 1])

\* the controller goes on to its next statement
advance(Y) == [Y EXCEPT !.calls[Len(Y.calls)].trav.pc = @ + 1]

\* operator new for node_identity
NewIdentity(Y) ==
    CHOOSE a \in 1..Cardinality(Widgets) :
        /\ a \notin Range(Y.identity)
        /\ \A b \in 1..(a - 1) : b \in Range(Y.identity)

\* get_node_id: the address of the cached node_identity of widget n
get_node_id(Y, n) ==
    IF Y.identity[n] = NULL THEN [Y EXCEPT !.identity[n] = NewIdentity(Y)]
    ELSE Y

\* the addresses operator new may return for a node_identity
IdentityAddrs == 1..Cardinality(Widgets)

\* get_node_id of widget n where operator new, if get_cached_data calls
\* it, returns a
get_node_id_at(Y, n, a) ==
    IF Y.identity[n] = NULL THEN [Y EXCEPT !.identity[n] = a] ELSE Y

\* if_block::if_block with a false condition, where the block holds the
\* cached node_identity of widget n: clear_cached_data deletes it
clear_node_identity(Y, n) ==
    IF Top(Y).trav.cache_clearing_enabled
    THEN [Y EXCEPT !.identity[n] = NULL] ELSE Y

\* make_routable_node_id
make_routable_node_id(Y, id) ==
    [id |-> id, region |-> Top(Y).trav.active_region]

\* detect_targeted_event<click_event>
detect_targeted_event(Y, id) ==
    Top(Y).trav.event_type = "click_event" /\ Top(Y).trav.target_id = id

\* on_targeted_event that does not abort the traversal after the handler
on_targeted_event_no_abort(Y, n) ==
    IF detect_targeted_event(Y, Y.identity[n])
    THEN advance([Y EXCEPT !.d.handled = Append(@, n)])
    ELSE advance(Y)

\* on_targeted_event: handler(ctx, *e); abort_traversal(ctx);
on_targeted_event(Y, n) ==
    IF detect_targeted_event(Y, Y.identity[n])
    THEN route_event_catch([Y EXCEPT !.d.handled = Append(@, n)])
    ELSE advance(Y)

\* scoped_routing_region::begin that takes every region of a targeted
\* dispatch for one on the path
scoped_routing_region_begin_any(Y, r) ==
    LET i == Len(Y.calls)
        tr == Y.calls[i].trav
    IN [Y EXCEPT
          !.regions[r] = tr.active_region,
          !.calls[i].trav.scopes =
              Append(@, [parent_ |-> tr.active_region, is_relevant_ |-> TRUE]),
          !.calls[i].trav.active_region = r,
          !.calls[i].trav.path_to_target =
              IF tr.targeted /\ @ # <<>> THEN Tail(@) ELSE @,
          !.calls[i].trav.pc = @ + 1]

\* scoped_routing_region::begin for the region at position r
scoped_routing_region_begin(Y, r) ==
    LET i == Len(Y.calls)
        tr == Y.calls[i].trav
        on_path == /\ tr.path_to_target # <<>>
                   /\ Head(tr.path_to_target) = r
    IN [Y EXCEPT
          !.regions[r] = tr.active_region,
          !.calls[i].trav.scopes =
              Append(@, [parent_ |-> tr.active_region,
                         is_relevant_ |-> IF tr.targeted THEN on_path ELSE TRUE]),
          !.calls[i].trav.active_region = r,
          !.calls[i].trav.path_to_target =
              IF tr.targeted /\ on_path THEN Tail(@) ELSE @,
          !.calls[i].trav.pc = @ + 1]

\* scoped_routing_region::end
scoped_routing_region_end(Y) ==
    LET i == Len(Y.calls)
        tr == Y.calls[i].trav
    IN [Y EXCEPT
          !.calls[i].trav.active_region = tr.scopes[Len(tr.scopes)].parent_,
          !.calls[i].trav.scopes = Pop(@),
          !.calls[i].trav.pc = @ + 1]

\* What is remembered about the calls of a function (f of apply, the
\* launcher of async): `cause` is the strongest reason for a new call that
\* has arisen since the last call ("id": the argument changed identity,
\* "lost": it lost its value, "cleared": the cached data was cleared);
\* `why` is the cause there was at the last call ("never": no call yet,
\* "first": the last call was the first); threw: the last call threw;
\* after_fail: the call before the last one threw.
NoCalls ==
    [cause |-> "none", why |-> "never", threw |-> FALSE, after_fail |-> FALSE]

Noted(g, c) ==
    LET rank == [none |-> 0, cleared |-> 1, lost |-> 2, id |-> 3]
    IN IF rank[c] > rank[g.cause] THEN [g EXCEPT !.cause = c] ELSE g

Called(g, threw) ==
    [cause |-> "none",
     why |-> IF g.why = "never" THEN "first" ELSE g.cause,
     threw |-> threw,
     after_fail |-> g.threw]

\* reset(async_operation_data&)
reset(data) ==
    IF data.status # "UNREADY"
    THEN [data EXCEPT !.version = @ + 1, !.status = "UNREADY"]
    ELSE data

\* the argument signal of async as the controller sees it in this pass
ArgSignal == [has |-> argHas, id |-> argId]

\* process_async_args for the one argument of async; `invoked` counts the
\* calls of the launcher since an argument identity was captured or a
\* result was reported
process_async_args(Y, arg) ==
    IF Top(Y).trav.event_type # "refresh_event" THEN Y
    ELSE IF ~arg.has THEN [Y EXCEPT !.async_data = reset(@)]
    ELSE IF Y.async_data.cached_id # arg.id
    THEN [Y EXCEPT !.async_data =
             [reset(@) EXCEPT !.cached_id = arg.id, !.invoked = 0]]
    ELSE Y

\* the condition under which async calls the launcher:
\* on_refresh, data.status == UNREADY && args_ready
launches(Y, arg) ==
    /\ Top(Y).trav.event_type = "refresh_event"
    /\ Y.async_data.status = "UNREADY"
    /\ arg.has

\* async calls launcher(ctx, report_result, read_signal(args)...)
launch(Y, threw) ==
    [Y EXCEPT !.async_data.invoked = @ + 1,
              !.async_data.status = IF threw THEN "FAILED" ELSE @,
              !.async_data.g = Called(@, threw)]

\* the report_result closure of async, created for `version`, called with
\* the result computed from the argument value `value`
report_result(Y, version, value, caller) ==
    refresh_system(
        IF Y.async_data.version = version
        THEN [Y EXCEPT !.async_data.result = value,
                       !.async_data.status = "COMPLETE",
                       !.async_data.invoked = 0]
        ELSE [Y EXCEPT !.async_data.invoked = 0],
        caller)

\* apply_result_data and the captured_id of the argument, as
\* get_cached_data creates them; seen_id is the value_id that the apply
\* signal had on the last refresh pass on which it had a value, recomputed
\* tells that f has been called since, reused and changed tell that a
\* value_id was seen again after f was called, and was seen to differ
\* though f was not called; at is what held when f was last called
NoApplyData ==
    [result_version |-> 0, result |-> NULL, status |-> "UNCOMPUTED",
     cached_id |-> NULL,
     g |-> NoCalls,
     at |-> [refresh |-> TRUE, has |-> TRUE, status |-> "UNCOMPUTED"],
     seen_id |-> Uninit, recomputed |-> FALSE,
     reused |-> FALSE, changed |-> FALSE]

\* reset(apply_result_data&)
reset_apply_result_data(data) ==
    IF data.status # "UNCOMPUTED"
    THEN [data EXCEPT !.result_version = @ + 1, !.status = "UNCOMPUTED"]
    ELSE data

\* process_apply_args for the one argument of apply
process_apply_args(Y, arg) ==
    IF Top(Y).trav.event_type # "refresh_event" THEN Y
    ELSE IF ~arg.has
    THEN [Y EXCEPT !.apply_data = reset_apply_result_data(@)]
    ELSE IF Y.apply_data.cached_id # arg.id
    THEN [Y EXCEPT !.apply_data =
             [reset_apply_result_data(@) EXCEPT !.cached_id = arg.id]]
    ELSE Y

\* apply_signal
apply_signal(data) ==
    [has |-> data.status = "READY", id |-> data.result_version,
     value |-> data.result]

\* the apply signal is looked at at the end of apply on a refresh pass,
\* unless an exception has left apply
Observed(Y) ==
    LET a == Y.apply_data
        sig == apply_signal(a)
    IN IF Y.calls = <<>> THEN Y
       ELSE IF Top(Y).trav.event_type = "refresh_event" /\ sig.has
       THEN [Y EXCEPT !.apply_data =
                [a EXCEPT
                    !.reused = @ \/ (a.seen_id # Uninit /\ a.recomputed
                                       /\ sig.id = a.seen_id),
                    !.changed = @ \/ (a.seen_id # Uninit /\ ~a.recomputed
                                        /\ sig.id # a.seen_id),
                    !.seen_id = sig.id,
                    !.recomputed = FALSE]]
       ELSE Y

\* the condition under which apply calls f, in apply as it would be
\* without the test of the status
calls_f_whatever_status(Y, arg) ==
    /\ Top(Y).trav.event_type = "refresh_event"
    /\ arg.has

\* the condition under which apply calls f
calls_f(Y, arg) ==
    /\ Top(Y).trav.event_type = "refresh_event"
    /\ Y.apply_data.status = "UNCOMPUTED"
    /\ arg.has

\* apply without the handler catch (...): the exception of f leaves apply
\* and the traversal
call_f_no_catch(Y, arg, threw) ==
    IF threw
    THEN [Y EXCEPT !.calls = <<>>,
                   !.d.propagated = "exception",
                   !.d.returned = TRUE,
                   !.apply_data.g = Called(@, threw)]
    ELSE [Y EXCEPT !.apply_data.result = arg.id,
                   !.apply_data.status = "READY",
                   !.apply_data.g = Called(@, threw),
                   !.apply_data.recomputed = TRUE]

\* apply calls f: data.result = f(read_signal(args)...), or f throws
call_f(Y, arg, threw) ==
    LET a == Y.apply_data
    IN [Y EXCEPT !.apply_data =
          [a EXCEPT
              !.result = IF threw THEN @ ELSE arg.id,
              !.status = IF threw THEN "FAILED" ELSE "READY",
              !.g = Called(@, threw),
              !.recomputed = TRUE,
              !.at = [refresh |-> Top(Y).trav.event_type = "refresh_event",
                      has |-> arg.has, status |-> a.status]]]

\* apply
apply(Y, arg, threw) ==
    LET Y1 == process_apply_args(Y, arg)
    IN Observed(IF calls_f(Y1, arg) THEN call_f(Y1, arg, threw) ELSE Y1)

\* if_block::if_block with a false condition, where the block holds the
\* cached data of apply: clear_cached_data deletes them, and the next
\* get_cached_data creates them anew
clear_apply_data(Y) ==
    LET a == Y.apply_data
        fresh == a.status = "UNCOMPUTED" /\ a.cached_id = NULL
                 /\ a.result_version = 0
    IN IF Top(Y).trav.cache_clearing_enabled /\ ~fresh
       THEN [Y EXCEPT !.apply_data =
                [a EXCEPT !.result_version = 0, !.result = NULL,
                          !.status = "UNCOMPUTED", !.cached_id = NULL,
                          !.g = Noted(@, "cleared")]]
       ELSE Y

\* counts the instructions an event traversal executes after a handler
Executed(Y) ==
    IF Top(Y).stage = "event" /\ Y.d.handled # <<>>
    THEN [Y EXCEPT !.d.after = @ + 1] ELSE Y

RECURSIVE Total(_, _)
Total(f, D) ==
    IF D = {} THEN 0
    ELSE LET x == CHOOSE y \in D : TRUE IN f[x] + Total(f, D \ {x})

\* the event loop may make a call: nothing is running
SysIdle == calls = <<>> /\ Total(pending, Versions \X ArgIds) < MaxPending

\* the controller is at an instruction of kind op
At(op) ==
    /\ calls # <<>>
    /\ Top(CurSys).trav # NoTrav
    /\ Top(CurSys).trav.pc \in DOMAIN Code(controller)
    /\ Code(controller)[Top(CurSys).trav.pc].op = op

Arg == Code(controller)[Top(CurSys).trav.pc].arg

\* ------------------------------------------------ identities and signals

NumAddrs == 2     \* variables of the application that can be pointed at

Addrs == 1..NumAddrs
Ints == 0..MaxVal

\* An identity is its concrete type, the pointer it holds (NULL if it
\* holds none) and the value it stores itself.
make_id(v) == [type |-> "simple_id", ptr |-> NULL, value |-> v]

make_id_by_reference(a) ==
    [type |-> "simple_id_by_reference", ptr |-> a, value |-> NULL]

\* a simple_id_by_reference whose value_ points at its own storage_
stored_id(v) == [type |-> "simple_id_by_reference", ptr |-> NULL, value |-> v]

null_id == [type |-> "simple_id<null_id_type*>", ptr |-> NULL, value |-> NULL]
unit_id == [type |-> "simple_id<unit_id_type*>", ptr |-> NULL, value |-> NULL]

\* an empty std::shared_ptr<id_interface>
NoId == [type |-> "none", ptr |-> NULL, value |-> NULL]

\* the identities a program can build while the variables hold m
Ids == {make_id(v) : v \in Ints} \cup {make_id_by_reference(a) : a \in Addrs}
       \cup {stored_id(v) : v \in Ints} \cup {null_id, unit_id}

\* value_ of a simple_id, *value_ of a simple_id_by_reference
value_of(id, m) == IF id.ptr # NULL THEN m[id.ptr] ELSE id.value

equals(a, b, m) == value_of(a, m) = value_of(b, m)

types_match(a, b) == a.type = b.type

\* operator== without the comparison of the types
id_eq_untyped(a, b, m) == equals(a, b, m)

\* operator==(id_interface const&, id_interface const&)
id_eq(a, b, m) == types_match(a, b) /\ equals(a, b, m)

\* deep_copy that copies the pointer and not the value
deep_copy_pointer(id, m) == id

deep_copy(id, m) ==
    IF id.type = "simple_id_by_reference"
    THEN stored_id(value_of(id, m))
    ELSE id

clone(id, m) == deep_copy(id, m)

clone_into(storage, id, m) ==
    IF storage # NoId /\ types_match(storage, id)
    THEN deep_copy(id, m)
    ELSE clone(id, m)

\* captured_id::matches
matches(c, id, m) == c # NoId /\ id_eq(c, id, m)

\* what an identity identifies, whatever it is made of
Content(id, m) == <<id.type, value_of(id, m)>>

\* --- value signals

\* a value signal whose identity is unit_id whatever it carries
value_signal_unit(v) == [has_value |-> TRUE, read |-> v, value_id |-> unit_id]

\* value(v): regular_signal::value_id is make_id_by_reference(read()),
\* and read() is the v_ that the signal object holds
value_signal(v) ==
    [has_value |-> TRUE, read |-> v, value_id |-> stored_id(v)]

\* value("..."), text being the number of the literal
string_literal_signal(text) ==
    [has_value |-> TRUE, read |-> text, value_id |-> unit_id]

\* direct(x), x being the variable at address a
direct(a, m) ==
    [has_value |-> TRUE, read |-> m[a], value_id |-> make_id_by_reference(a)]

\* --- keyed data

NoKeyedData ==
    [key |-> NoId, is_valid |-> FALSE, value |-> NULL,
     presented |-> <<"none", NULL>>, last |-> "none", expected |-> FALSE,
     written |-> NULL]

\* refresh_keyed_data that captures the key and leaves is_valid alone
refresh_keyed_data_keeps_valid(data, key, m) ==
    IF ~matches(data.key, key, m)
    THEN [data EXCEPT !.key = clone_into(data.key, key, m)]
    ELSE data

refresh_keyed_data(data, key, m) ==
    IF ~matches(data.key, key, m)
    THEN [data EXCEPT !.is_valid = FALSE,
                      !.key = clone_into(data.key, key, m)]
    ELSE data

\* alia::set, called by keyed_data_signal::write
set(data, value) == [data EXCEPT !.value = value, !.is_valid = TRUE]

keyed_data_signal(data) ==
    [has_value |-> data.is_valid, read |-> data.value,
     value_id |-> IF data.key # NoId THEN data.key ELSE null_id]

\* --- lazy_apply

\* the function given to lazy_apply
f(a, b) == <<a, b>>

NoLazy ==
    [already_generated_ |-> FALSE, value_ |-> <<NULL, NULL>>,
     returned |-> <<NULL, NULL>>, reads |-> "none",
     last |-> <<Uninit, Uninit>>, again |-> FALSE, stale |-> FALSE]

\* the arguments of the lazy_apply2_signal: direct(x) and the signal that
\* is the argument of async and apply
arg0_(m) == direct(1, m)
arg1_ == [has_value |-> argHas, read |-> argId, value_id |-> make_id(argId)]

\* lazy_reader::read with generator f_(arg0_.read(), arg1_.read())
lazy_reader_read(l, m) ==
    LET generated == f(arg0_(m).read, arg1_.read)
        l1 == IF ~l.already_generated_
              THEN [l EXCEPT !.value_ = generated,
                             !.already_generated_ = TRUE,
                             !.again = @ \/ l.last = generated,
                             !.last = generated]
              ELSE l
    IN  [l1 EXCEPT !.returned = l1.value_,
                   !.reads = IF l.already_generated_ THEN "stored"
                             ELSE "generated",
                   !.stale = @ \/ l1.value_ # generated]

lazy_apply2_signal(l, m) ==
    [has_value |-> arg0_(m).has_value /\ arg1_.has_value,
     value_id |-> <<arg0_(m).value_id, arg1_.value_id>>]

\* --- state, masking and write_signal

\* state_holder(): version_ 0 means not initialized
NoState ==
    [value_ |-> NULL, version_ |-> 0,
     expected |-> NULL, initialized |-> FALSE,
     last |-> [op |-> "none", kind |-> "none", ready |-> FALSE, v |-> NULL,
               before |-> <<NULL, 0>>, after |-> <<NULL, 0>>,
               mask |-> FALSE]]

\* state_holder::set
state_holder_set(st, value) ==
    [st EXCEPT !.value_ = value, !.version_ = @ + 1]

\* A signal is what its member functions return; to is the object that
\* its write() changes.
state_signal(st) ==
    [has_value |-> st.version_ # 0, read |-> st.value_,
     value_id |-> make_id(st.version_), ready_to_write |-> TRUE,
     to |-> "state"]

empty_signal ==
    [has_value |-> FALSE, read |-> NULL, value_id |-> null_id,
     ready_to_write |-> FALSE, to |-> "nothing"]

\* the condition given to mask
mask_ == [has_value |-> argHas, read |-> cond]

\* a masking_signal that does not read its mask
masking_signal_unmasked(primary, mask) == primary

masking_signal(primary, mask) ==
    [has_value |-> mask.has_value /\ mask.read /\ primary.has_value,
     read |-> primary.read,
     value_id |-> IF mask.has_value /\ mask.read THEN primary.value_id
                  ELSE null_id,
     ready_to_write |->
         mask.has_value /\ mask.read /\ primary.ready_to_write,
     to |-> primary.to]

\* signal.write(value)
write(signal, value, st) ==
    IF signal.to = "state" THEN state_holder_set(st, value) ELSE st

\* write_signal that does not ask ready_to_write
write_signal_unasked(signal, value, st) == write(signal, value, st)

write_signal(signal, value, st) ==
    IF signal.ready_to_write THEN write(signal, value, st) ELSE st

\* get_state that sets the state to the initial value whenever there is
\* one
get_state_always(st, initial_value) ==
    IF initial_value.has_value
    THEN state_holder_set(st, initial_value.read)
    ELSE st

\* get_state(ctx, initial_value), the state_holder being st
get_state(st, initial_value) ==
    IF st.version_ = 0 /\ initial_value.has_value
    THEN state_holder_set(st, initial_value.read)
    ELSE st

\* the signals the application writes to
SignalKinds == {"state", "masked state", "empty", "masked empty"}

SignalOf(kind, st) ==
    IF kind = "state" THEN state_signal(st)
    ELSE IF kind = "masked state"
    THEN masking_signal(state_signal(st), mask_)
    ELSE IF kind = "empty" THEN empty_signal
    ELSE masking_signal(empty_signal, mask_)

\* --- actions
\* The program on actions performs (s1 <<= r1, s2 <<= r2), where each of
\* s1, r1, s2, r2 is direct(x) for a variable x of the application, or
\* the empty signal, which has no value and is not ready to write. A
\* signal is written here as the address of its variable, or NULL.
ActionSignals == {NULL} \cup Addrs

\* sink <<= source
copy_action(sink, source) == [kind |-> "copy", sink |-> sink, source |-> source]

\* first, second
action_pair(first, second) ==
    [kind |-> "pair", first |-> first, second |-> second]

CopyActions == {copy_action(s, r) : s \in ActionSignals, r \in ActionSignals}

\* is_ready() of copy_action and of action_pair
RECURSIVE is_ready(_)
is_ready(a) ==
    IF a.kind = "copy" THEN a.source # NULL /\ a.sink # NULL
    ELSE is_ready(a.first) /\ is_ready(a.second)

\* what performing has done so far: the variables, and the reads and writes
\* of signals in the order they happened
Performing(m) == [mem |-> m, log |-> <<>>]

read_signal(P, r) == [P EXCEPT !.log = Append(@, <<"read", r, P.mem[r]>>)]

write_direct(P, s, v) ==
    [P EXCEPT !.mem[s] = v, !.log = Append(@, <<"write", s, v>>)]

RECURSIVE perform(_, _, _)
RECURSIVE intermediary_call(_, _)

\* copy_action::perform that writes before it calls the intermediary
copy_action_perform_early(a, intermediary, P) ==
    intermediary_call(
        intermediary, write_direct(read_signal(P, a.source), a.sink,
                                   P.mem[a.source]))

\* copy_action::perform: value is what source_.read() returned
copy_action_perform(a, intermediary, P) ==
    write_direct(intermediary_call(intermediary, read_signal(P, a.source)),
                 a.sink, P.mem[a.source])

\* action.perform(intermediary); an intermediary is the list of the
\* actions whose perform the nested closures call, the innermost last
perform(a, intermediary, P) ==
    IF a.kind = "copy" THEN copy_action_perform(a, intermediary, P)
    ELSE perform(a.second, <<a.first>> \o intermediary, P)

\* intermediary(): []() {} or [&]() { first_.perform(intermediary); }
intermediary_call(intermediary, P) ==
    IF intermediary = <<>> THEN P
    ELSE perform(Head(intermediary), Tail(intermediary), P)

\* perform_action that does not ask whether the action is ready: an
\* action that is not ready is performed as far as its signals allow
perform_action_unasked(a, P) ==
    IF is_ready(a) THEN perform(a, <<>>, P)
    ELSE IF is_ready(a.first) THEN perform(a.first, <<>>, P)
    ELSE IF is_ready(a.second) THEN perform(a.second, <<>>, P)
    ELSE P

perform_action(a, P) == IF is_ready(a) THEN perform(a, <<>>, P) ELSE P

\* --- text conversions
\* Integer types are scaled down: short int and unsigned short int have
\* NarrowBits bits, long long int and unsigned long long int WideBits.
NarrowBits == 3
WideBits == 6
MaxTextLen == 3

IntTypes ==
    {[signed |-> sg, bits |-> b] : sg \in BOOLEAN, b \in {NarrowBits, WideBits}}

\* a std::string is a sequence of characters
DigitChars == <<"0", "1", "2", "3", "4", "5", "6", "7", "8", "9">>
Digit == {DigitChars[i] : i \in 1..10}
Chars == Digit \cup {"-", "x"}
Texts == UNION {[1..n -> Chars] : n \in 0..MaxTextLen}

digit_value(c) == CHOOSE i \in 0..9 : DigitChars[i + 1] = c

\* the number a sequence of decimal digits denotes
RECURSIVE magnitude(_)
magnitude(ds) ==
    IF ds = <<>> THEN 0
    ELSE 10 * magnitude(SubSeq(ds, 1, Len(ds) - 1)) + digit_value(ds[Len(ds)])

\* the decimal digits of a natural number
RECURSIVE digits_of(_)
digits_of(n) ==
    IF n < 10 THEN <<DigitChars[n + 1]>>
    ELSE Append(digits_of(n \div 10), DigitChars[(n % 10) + 1])

\* value_to_string(value): s << value
value_to_string(value) ==
    IF value < 0 THEN <<"-">> \o digits_of(0 - value) ELSE digits_of(value)

\* string_to_value(str, &n) for n a long long (signed) or an unsigned
\* long long: s >> x reads an optional sign and digits as strtoll or
\* strtoull does and fails when there is no digit or the number does not
\* fit; strtoull negates a number with a minus sign in the unsigned type;
\* then nothing but white space may follow
string_to_value(str, signed) ==
    LET neg  == str # <<>> /\ str[1] = "-"
        ds   == IF neg THEN Tail(str) ELSE str
        wf   == ds # <<>> /\ \A i \in 1..Len(ds) : ds[i] \in Digit
        mag  == magnitude(ds)
        fits == IF signed
                THEN mag <= (IF neg THEN Pow2(WideBits - 1)
                                    ELSE Pow2(WideBits - 1) - 1)
                ELSE mag <= Pow2(WideBits) - 1
    IN  IF ~wf \/ ~fits THEN [ok |-> FALSE, value |-> NULL]
        ELSE [ok |-> TRUE,
              value |-> IF signed THEN (IF neg THEN 0 - mag ELSE mag)
                        ELSE IF neg THEN (Pow2(WideBits) - mag) % Pow2(WideBits)
                        ELSE mag]

\* T(n)
cast(T, n) ==
    LET u == n % Pow2(T.bits)
    IN  IF T.signed /\ u >= Pow2(T.bits - 1) THEN u - Pow2(T.bits) ELSE u

\* signed_integer_from_string and unsigned_integer_from_string
integer_from_string(T, str) ==
    LET r == string_to_value(str, T.signed)
    IN  IF ~r.ok THEN [raised |-> "validation_error", value |-> NULL]
        ELSE IF cast(T, r.value) # r.value
        THEN [raised |-> "validation_error", value |-> NULL]
        ELSE [raised |-> "", value |-> cast(T, r.value)]

\* the bidirectional_text_data that update_bidirectional_text leaves for
\* a wrapped signal of value x, and the wrapped value
text_of(x) ==
    [input_value |-> x, output_valid |-> TRUE,
     output_text |-> value_to_string(x), output_version |-> 2, wrapped |-> x]

\* bidirectional_text_signal::write(s)
bidirectional_text_signal_write(T, w, str) ==
    LET r == integer_from_string(T, str)
    IN  IF r.raised # "" THEN w
        ELSE [w EXCEPT !.input_value = r.value, !.wrapped = r.value,
                       !.output_text = str,
                       !.output_version = w.output_version + 1]

\* --- the Qt binding (main.cpp)
\* The binding is exercised with a controller that nests one column in
\* another, the inner one under a condition as do_app_ui has its label:
\*     column_layout r(ctx);
\*     alia_if (c) { column_layout inner(ctx); do_label(ctx, text); }
\*     alia_end
\* R is the qt_column of r, C that of inner and L the qt_label. All three
\* are cached data, made by new typed_cached_data<T>, which leaves next,
\* children, parent and dirty uninitialized; C and L are freed when a
\* refresh pass finds c false.
LayoutNodes == {"R", "C", "L"}
Containers == {"R", "C"}

\* the values of a qt_layout_node*: "junk" is the address of no node
Ptr == LayoutNodes \cup {"null", "junk"}

\* what the memory of a new object may hold
Garbage == [next : Ptr, children : Ptr, dirty : BOOLEAN]

\* a layout node that is not allocated
NoLayoutNode ==
    [live |-> FALSE, next |-> "junk", children |-> "junk",
     parent |-> "junk", dirty |-> FALSE, object |-> FALSE, items |-> <<>>]

\* the qt_system after initialize, before the first refresh; built,
\* created, before, reached and rebuilt describe the last refresh pass
QtStart ==
    [root |-> "null", obj |-> [n \in LayoutNodes |-> NoLayoutNode],
     next_ptr |-> <<"sys", "root">>, active_container |-> "null",
     stage |-> "idle", created |-> {}, before |-> [n \in Containers |-> <<>>],
     reached |-> {}, rebuilt |-> {}]

\* *traversal.next_ptr
deref(Q) ==
    IF Q.next_ptr[1] = "sys" THEN Q.root
    ELSE IF Q.next_ptr[2] = "children" THEN Q.obj[Q.next_ptr[1]].children
    ELSE Q.obj[Q.next_ptr[1]].next

\* *traversal.next_ptr = node
store(Q, node) ==
    IF Q.next_ptr[1] = "sys" THEN [Q EXCEPT !.root = node]
    ELSE IF Q.next_ptr[2] = "children"
    THEN [Q EXCEPT !.obj[Q.next_ptr[1]].children = node]
    ELSE [Q EXCEPT !.obj[Q.next_ptr[1]].next = node]

\* record_container_change(container)
RECURSIVE record_container_change(_, _)
record_container_change(Q, container) ==
    IF container # "null" /\ ~Q.obj[container].dirty
    THEN record_container_change([Q EXCEPT !.obj[container].dirty = TRUE],
                                 Q.obj[container].parent)
    ELSE Q

\* record_layout_change(traversal)
record_layout_change(Q) ==
    IF Q.active_container # "null"
    THEN record_container_change(Q, Q.active_container)
    ELSE Q

\* set_next_node(traversal, node)
set_next_node(Q, node) ==
    IF deref(Q) # node THEN store(record_layout_change(Q), node) ELSE Q

\* add_layout_node(ctx, node)
add_layout_node(Q, node) ==
    [set_next_node(Q, node) EXCEPT !.next_ptr = <<node, "next">>]

\* get_cached_data(ctx, &node): new typed_cached_data<T>, whose members
\* of built-in type hold whatever the memory held
get_layout_node(Q, node, g) ==
    IF Q.obj[node].live THEN Q
    ELSE [Q EXCEPT !.obj[node] =
             [live |-> TRUE, next |-> g.next, children |-> g.children,
              parent |-> "junk", dirty |-> g.dirty, object |-> FALSE,
              items |-> <<>>],
          !.created = @ \cup {node}]

\* scoped_layout_container::begin in a refresh pass
scoped_layout_container_begin(Q, container) ==
    [set_next_node(Q, container) EXCEPT
        !.obj[container].parent = Q.active_container,
        !.next_ptr = <<container, "children">>,
        !.active_container = container]

\* scoped_layout_container::end
scoped_layout_container_end(Q) ==
    [set_next_node(Q, "null") EXCEPT
        !.next_ptr = <<Q.active_container, "next">>,
        !.active_container = Q.obj[Q.active_container].parent]

\* clear_cached_data of the block of the alia_if: C and L are deleted
delete_layout_nodes(Q) ==
    [Q EXCEPT !.obj["C"].live = FALSE, !.obj["C"].object = FALSE,
              !.obj["C"].items = <<>>, !.obj["L"].live = FALSE]

\* the body of the alia_if
inner_column(Q, gC, gL) ==
    scoped_layout_container_end(
        add_layout_node(
            get_layout_node(
                scoped_layout_container_begin(
                    get_layout_node(Q, "C", gC), "C"),
                "L", gL),
            "L"))

\* this->controller(ctx) in a refresh pass
qt_controller(Q, c, gR, gC, gL) ==
    scoped_layout_container_end(
        IF c THEN inner_column(
                      scoped_layout_container_begin(
                          get_layout_node(Q, "R", gR), "R"), gC, gL)
        ELSE delete_layout_nodes(
                 scoped_layout_container_begin(
                     get_layout_node(Q, "R", gR), "R")))

\* the nodes of a list of children, from node on
RECURSIVE ChildList(_, _, _)
ChildList(Q, node, acc) ==
    IF node \notin LayoutNodes \/ node \in Range(acc) THEN acc
    ELSE ChildList(Q, Q.obj[node].next, Append(acc, node))

\* qt_label::update and qt_column::update, for the nodes of a list: each
\* node adds itself to the layout of the container that called it
RECURSIVE update_list(_, _, _)
RECURSIVE update(_, _, _)

update_list(Q, list, into) ==
    IF list = <<>> THEN Q
    ELSE update_list(update(Q, Head(list), into), Tail(list), into)

update(Q, node, into) ==
    LET Q1 == IF into = "window" THEN Q
              ELSE [Q EXCEPT !.obj[into].items = Append(@, node)]
    IN  IF node \notin Containers THEN Q1
        ELSE IF ~Q1.obj[node].dirty
        THEN [Q1 EXCEPT !.obj[node].object = TRUE,
                        !.reached = @ \cup {node}]
        ELSE [update_list(
                  [Q1 EXCEPT !.obj[node].object = TRUE,
                             !.obj[node].items = <<>>,
                             !.reached = @ \cup {node},
                             !.rebuilt = @ \cup {node}],
                  ChildList(Q1, Q1.obj[node].children, <<>>), node)
              EXCEPT !.obj[node].dirty = FALSE]

\* the lists of children the containers have, the empty list for a
\* container that is not allocated
Children(Q) ==
    [n \in Containers |->
        IF Q.obj[n].live THEN ChildList(Q, Q.obj[n].children, <<>>)
        ELSE <<>>]

\* qt_system::operator() in a refresh pass, up to the return of the
\* controller
qt_pass(Q, c, gR, gC, gL) ==
    [qt_controller(
         [Q EXCEPT !.next_ptr = <<"sys", "root">>,
                   !.active_container = "null",
                   !.created = {}, !.reached = {}, !.rebuilt = {},
                   !.before = Children(Q)],
         c, gR, gC, gL)
     EXCEPT !.stage = "built"]

\* this->root->update(this->system, this->window, this->layout)
qt_update(Q) == [update(Q, Q.root, "window") EXCEPT !.stage = "idle"]

NoGarbage == [next |-> "junk", children |-> "junk", dirty |-> FALSE]

\* what a new object could hold; an object that exists is not made anew
GarbageFor(node) == IF qt.obj[node].live THEN {NoGarbage} ELSE Garbage

\* the objects of the programs on identities and signals, constructed
SigStart ==
    /\ mem = [a \in Addrs |-> 0]
    /\ id_ = [id |-> NoId, from |-> NoId, was |-> NULL]
    /\ key_data = NoKeyedData
    /\ lazy = NoLazy
    /\ out = [op |-> "none", a |-> NoId, b |-> NoId, eq |-> FALSE,
              has |-> FALSE, va |-> NULL, vb |-> NULL]
    /\ state = NoState

\* the system after construction with controller c
SysStart(c) ==
    /\ calls = <<>>
    /\ refresh_needed = FALSE
    /\ regions = [r \in RegionIds |-> Uninit]
    /\ identity = [n \in Widgets |-> NULL]
    /\ captured = [n \in Widgets |-> null_node_id]
    /\ async_data = [version |-> 0, status |-> "UNREADY", result |-> NULL,
                     cached_id |-> NULL, invoked |-> 0, g |-> NoCalls]
    /\ apply_data = NoApplyData
    /\ argId = 1
    /\ argHas = TRUE
    /\ cond = TRUE
    /\ controller = c
    /\ pending = [x \in Versions \X ArgIds |-> 0]
    /\ d = NoD
    /\ anim \in AnimStart(c)
    /\ qt = QtStart
    /\ SigStart

SysInit == SysStart("routing")

\* --- calls made by the event loop
\* dispatch_targeted_event(sys, click, captured[n])
DispatchTargetedEvent(n) ==
    /\ SysIdle
    /\ is_valid(captured[n])
    /\ LET path == route_event_(regions, captured[n].region, <<>>)
           tr == invoke_controller("click_event", TRUE, captured[n].id, path)
       IN InstallSys([CurSys EXCEPT
              !.calls = <<Activation("dispatch_targeted_event", "event",
                                     "event loop", tr)>>,
              !.d = [NoD EXCEPT !.fn = "dispatch_targeted_event",
                                !.target = n,
                                !.event_end = "running"]])
    /\ UNCHANGED <<env, datavars>>

\* dispatch_event(sys, key): an event that no widget handles
DispatchEvent ==
    /\ SysIdle
    /\ LET tr == invoke_controller("key_event", FALSE, NULL, <<>>)
       IN InstallSys([CurSys EXCEPT
              !.calls = <<Activation("dispatch_event", "event",
                                     "event loop", tr)>>,
              !.d = [NoD EXCEPT !.fn = "dispatch_event",
                                !.event_end = "running"]])
    /\ UNCHANGED <<env, datavars>>

\* refresh_system(sys)
RefreshSystem ==
    /\ SysIdle
    /\ InstallSys(refresh_system(
           [CurSys EXCEPT !.d = [NoD EXCEPT !.fn = "refresh_system"]],
           "event loop"))
    /\ UNCHANGED <<env, datavars>>

\* external code calls a report_result it holds
ReportResultLater(v, a) ==
    /\ SysIdle
    /\ pending[<<v, a>>] > 0
    /\ InstallSys(report_result(
           [CurSys EXCEPT !.pending[<<v, a>>] = @ - 1,
                          !.d = [NoD EXCEPT !.fn = "report_result"]],
           v, a, "report_result"))
    /\ UNCHANGED <<env, datavars>>

\* the application changes the value of the argument of async and apply
ChangeArg(a) ==
    /\ calls = <<>>
    /\ controller \in {"async", "signals", "lazy", "state"}
    /\ a # argId
    /\ async_data.version < MaxVersion
    /\ apply_data.result_version < MaxVersion
    /\ argId' = a
    /\ async_data' = [async_data EXCEPT !.g = Noted(@, "id")]
    /\ apply_data' = [apply_data EXCEPT !.g = Noted(@, "id")]
    /\ UNCHANGED <<argHas, cond, controller, calls, refresh_needed, regions,
                   identity, captured, pending, d, anim, datavars, sigvars>>

\* the argument of async and apply loses its value, or gets it back
ArgValueChanges ==
    /\ calls = <<>>
    /\ controller \in {"async", "signals", "lazy", "state"}
    /\ async_data.version < MaxVersion
    /\ apply_data.result_version < MaxVersion
    /\ argHas' = ~argHas
    /\ async_data' =
           [async_data EXCEPT !.g = IF argHas THEN Noted(@, "lost") ELSE @]
    /\ apply_data' =
           [apply_data EXCEPT !.g = IF argHas THEN Noted(@, "lost") ELSE @]
    /\ UNCHANGED <<argId, cond, controller, calls, refresh_needed, regions,
                   identity, captured, pending, d, anim, datavars, sigvars>>

\* the condition of the alia_if around apply changes
CondChanges ==
    /\ calls = <<>>
    /\ controller \in {"signals", "state", "node"}
    /\ cond' = ~cond
    /\ UNCHANGED <<argId, argHas, controller, calls, refresh_needed, regions,
                   identity, captured, async_data, apply_data, pending, d,
                   anim, datavars, sigvars>>

\* --- programs on identities and signals, one statement at a time

\* what the system holds, which these programs leave alone
alia_system == <<calls, refresh_needed, regions, identity, captured,
                 async_data, apply_data, pending, d, argId, argHas, cond,
                 controller, anim>>

engine == <<alia_system, qt>>

\* x = v, x being the variable at address a; out describes the latest
\* perform_action only until the next assignment
Assign(a, v) ==
    /\ controller \in {"ids", "captured", "keyed", "lazy", "actions"}
    /\ mem[a] # v
    /\ mem' = [mem EXCEPT ![a] = v]
    /\ out' = IF out.op = "perform" THEN [op |-> "assign"] ELSE out
    /\ UNCHANGED <<id_, key_data, lazy, state, engine, datavars>>

\* id.capture(x)
Capture(x) ==
    /\ controller = "captured"
    /\ id_' = [id |-> clone_into(id_.id, x, mem), from |-> x,
               was |-> value_of(x, mem)]
    /\ UNCHANGED <<mem, key_data, lazy, out, state, engine, datavars>>

\* id.clear()
Clear ==
    /\ controller = "captured"
    /\ id_.id # NoId
    /\ id_' = [id |-> NoId, from |-> NoId, was |-> NULL]
    /\ UNCHANGED <<mem, key_data, lazy, out, state, engine, datavars>>

\* x == y
Compare(x, y) ==
    /\ controller = "ids"
    /\ out' = [op |-> "==", a |-> x, b |-> y, eq |-> id_eq(x, y, mem),
               has |-> TRUE, va |-> value_of(x, mem), vb |-> value_of(y, mem)]
    /\ UNCHANGED <<mem, id_, key_data, lazy, state, engine, datavars>>

\* value(v).value_id() == value(w).value_id(), v and w being both string
\* literals or both of another type
ValueSignals(v, w, literal) ==
    /\ controller = "ids"
    /\ LET s1 == IF literal THEN string_literal_signal(v) ELSE value_signal(v)
           s2 == IF literal THEN string_literal_signal(w) ELSE value_signal(w)
       IN  out' = [op |-> IF literal THEN "literal" ELSE "value",
                   a |-> s1.value_id, b |-> s2.value_id,
                   eq |-> id_eq(s1.value_id, s2.value_id, mem),
                   has |-> s1.has_value /\ s2.has_value,
                   va |-> s1.read, vb |-> s2.read]
    /\ UNCHANGED <<mem, id_, key_data, lazy, state, engine, datavars>>

\* perform_action((first, second))
PerformAction ==
    /\ controller = "actions"
    /\ \E first \in CopyActions, second \in CopyActions :
          LET P == perform_action(action_pair(first, second), Performing(mem))
          IN  /\ mem' = P.mem
              /\ out' = [op |-> "perform", first |-> first,
                         second |-> second,
                         ready |-> is_ready(action_pair(first, second)),
                         before |-> mem, after |-> P.mem, log |-> P.log]
    /\ UNCHANGED <<id_, key_data, lazy, state, engine, datavars>>

\* as_bidirectional_text(ctx, x).write(str), for x of an integer type T
WriteText ==
    /\ controller = "text"
    /\ out.op = "none"
    /\ \E T \in IntTypes, x \in Ints, str \in Texts :
          out' = [op |-> "write_text", type |-> T, str |-> str,
                  raised |-> integer_from_string(T, str).raised,
                  before |-> text_of(x),
                  after |-> bidirectional_text_signal_write(T, text_of(x), str)]
    /\ UNCHANGED <<mem, id_, key_data, lazy, state, engine, datavars>>

\* refresh_system runs a refresh pass of the Qt application with the
\* condition c, up to the return of the controller
QtRefresh(c) ==
    /\ controller = "qt"
    /\ qt.stage = "idle"
    /\ \E gR \in GarbageFor("R"), gC \in GarbageFor("C"),
          gL \in GarbageFor("L") : qt' = qt_pass(qt, c, gR, gC, gL)
    /\ UNCHANGED <<mem, id_, key_data, lazy, out, state, alia_system,
                   datavars>>

\* the pass goes on with the update of the layout from the root
QtUpdate ==
    /\ controller = "qt"
    /\ qt.stage = "built"
    /\ qt' = qt_update(qt)
    /\ UNCHANGED <<mem, id_, key_data, lazy, out, state, alia_system,
                   datavars>>

\* refresh_keyed_data(data, key)
RefreshKeyedData(key) ==
    /\ controller = "keyed"
    /\ LET same == Content(key, mem) = key_data.presented
       IN  key_data' = [refresh_keyed_data(key_data, key, mem) EXCEPT
                           !.presented = Content(key, mem),
                           !.last = IF same THEN "same" ELSE "other",
                           !.expected = @ /\ same]
    /\ UNCHANGED <<mem, id_, lazy, out, state, engine, datavars>>

\* make_signal(&data).write(v)
WriteKeyedData(v) ==
    /\ controller = "keyed"
    /\ key_data' = [set(key_data, v) EXCEPT !.last = "write",
                                            !.expected = TRUE,
                                            !.written = v]
    /\ UNCHANGED <<mem, id_, lazy, out, state, engine, datavars>>

\* auto s = lazy_apply(f, direct(x), arg), in place of the last s
LazyConstruct ==
    /\ controller = "lazy"
    /\ lazy.already_generated_
    /\ lazy' = [NoLazy EXCEPT !.last = lazy.last, !.again = lazy.again,
                              !.stale = lazy.stale]
    /\ UNCHANGED <<mem, id_, key_data, out, state, engine, datavars>>

\* s.read(), which is defined only if s.has_value()
LazyRead ==
    /\ controller = "lazy"
    /\ lazy_apply2_signal(lazy, mem).has_value
    /\ lazy' = lazy_reader_read(lazy, mem)
    /\ UNCHANGED <<mem, id_, key_data, out, state, engine, datavars>>

\* a pass of the controller: get_state(ctx, arg)
GetState ==
    /\ controller = "state"
    /\ LET st == get_state(state, arg1_)
       IN  state' =
               [st EXCEPT
                   !.initialized = @ \/ arg1_.has_value,
                   !.expected = IF ~state.initialized /\ arg1_.has_value
                                THEN arg1_.read ELSE @]
    /\ UNCHANGED <<mem, id_, key_data, lazy, out, engine, datavars>>

\* write_signal(s, v), s being a signal of the given kind
WriteSignal(kind, v) ==
    /\ controller = "state"
    /\ state.version_ < MaxVersion
    /\ LET s == SignalOf(kind, state)
           st == write_signal(s, v, state)
       IN  state' =
               [st EXCEPT
                   !.initialized = @ \/ s.ready_to_write,
                   !.expected = IF s.ready_to_write THEN v ELSE @,
                   !.last = [op |-> "write_signal", kind |-> kind,
                             ready |-> s.ready_to_write, v |-> v,
                             before |-> <<state.value_, state.version_>>,
                             after |-> <<st.value_, st.version_>>,
                             mask |-> mask_.has_value /\ mask_.read]]
    /\ UNCHANGED <<mem, id_, key_data, lazy, out, engine, datavars>>

\* --- the controller, one statement at a time
RegionBegin ==
    /\ At("region_begin")
    /\ InstallSys(scoped_routing_region_begin(Executed(CurSys), Arg))
    /\ UNCHANGED <<env, datavars>>

RegionEnd ==
    /\ At("region_end")
    /\ InstallSys(scoped_routing_region_end(Executed(CurSys)))
    /\ UNCHANGED <<env, datavars>>

Widget ==
    /\ At("widget")
    /\ LET Y1 == get_node_id(Executed(CurSys), Arg)
           Y2 == IF Top(Y1).trav.event_type = "refresh_event"
                 THEN [Y1 EXCEPT !.captured[Arg] =
                          make_routable_node_id(Y1, Y1.identity[Arg])]
                 ELSE Y1
       IN InstallSys(on_targeted_event(Y2, Arg))
    /\ UNCHANGED <<env, datavars>>

\* async when the launcher is not called
AsyncNoLaunch ==
    /\ At("async")
    /\ LET Y1 == process_async_args(Executed(CurSys), ArgSignal)
       IN /\ ~launches(Y1, ArgSignal)
          /\ InstallSys(advance(Y1))
    /\ UNCHANGED <<env, datavars>>

\* async when the launcher keeps report_result to call it later
AsyncLaunch ==
    /\ At("async")
    /\ LET Y1 == process_async_args(Executed(CurSys), ArgSignal)
       IN /\ launches(Y1, ArgSignal)
          /\ InstallSys(advance(launch(
                 [Y1 EXCEPT !.pending[<<Y1.async_data.version, argId>>] =
                               @ + 1], FALSE)))
    /\ UNCHANGED <<env, datavars>>

\* async when the launcher throws
AsyncLaunchThrows ==
    /\ At("async")
    /\ LET Y1 == process_async_args(Executed(CurSys), ArgSignal)
       IN /\ launches(Y1, ArgSignal)
          /\ InstallSys(advance(launch(Y1, TRUE)))
    /\ UNCHANGED <<env, datavars>>

\* async when the launcher calls report_result before it returns
AsyncLaunchSync ==
    /\ At("async")
    /\ LET Y1 == process_async_args(Executed(CurSys), ArgSignal)
       IN /\ launches(Y1, ArgSignal)
          /\ InstallSys(report_result(
                 launch([Y1 EXCEPT !.d.nested = TRUE], FALSE),
                 Y1.async_data.version, argId, "launcher"))
    /\ UNCHANGED <<env, datavars>>

\* alia_if (cond) with cond false
ApplySkipped ==
    /\ At("if_apply")
    /\ ~cond
    /\ InstallSys(advance(clear_apply_data(CurSys)))
    /\ UNCHANGED <<env, datavars>>

\* apply when f is not called
ApplyNoCall ==
    /\ At("if_apply")
    /\ cond
    /\ ~calls_f(process_apply_args(CurSys, ArgSignal), ArgSignal)
    /\ InstallSys(advance(apply(CurSys, ArgSignal, FALSE)))
    /\ UNCHANGED <<env, datavars>>

\* apply when f is called and returns, or throws
ApplyCalls(threw) ==
    /\ At("if_apply")
    /\ cond
    /\ calls_f(process_apply_args(CurSys, ArgSignal), ArgSignal)
    /\ LET Y1 == apply(CurSys, ArgSignal, threw)
       IN InstallSys(IF Y1.calls = <<>> THEN Y1 ELSE advance(Y1))
    /\ UNCHANGED <<env, datavars>>

\* alia_if (cond) around the widget, with cond false
IfWidgetSkipped ==
    /\ At("if_widget")
    /\ ~cond
    /\ InstallSys(advance(clear_node_identity(Executed(CurSys), Arg)))
    /\ UNCHANGED <<env, datavars>>

\* alia_if (cond) around the widget, with cond true; a is the address of
\* the node_identity if get_cached_data creates one
IfWidget(a) ==
    /\ At("if_widget")
    /\ cond
    /\ a \notin Range(identity)
    /\ LET Y1 == get_node_id_at(Executed(CurSys), Arg, a)
           Y2 == IF /\ Top(Y1).trav.event_type = "refresh_event"
                    /\ ~is_valid(Y1.captured[Arg])
                 THEN [Y1 EXCEPT !.captured[Arg] =
                          make_routable_node_id(Y1, Y1.identity[Arg])]
                 ELSE Y1
       IN InstallSys(on_targeted_event(Y2, Arg))
    /\ UNCHANGED <<env, datavars>>

\* the widget calls request_animation_refresh(ctx)
RequestAnimationRefresh ==
    /\ At("animate")
    /\ anim.requests < MaxRequests
    /\ InstallSys(request_animation_refresh(CurSys))
    /\ UNCHANGED <<env, datavars>>

\* the widget calls get_raw_animation_ticks_left(ctx, end_tick), where
\* end_tick is delta ticks after the tick counter (before, if negative)
GetTicksLeft(delta) ==
    /\ At("animate")
    /\ anim.requests < MaxRequests
    /\ LET r == get_raw_animation_ticks_left(
                    CurSys, (anim.clock + delta) % Pow2(TickBits))
       IN InstallSys([r.Y EXCEPT !.anim.result =
              [delta |-> delta, left |-> r.left,
               requested |-> r.Y.anim.requests > anim.requests,
               refresh |-> is_refresh_event(CurSys), asked |-> TRUE]])
    /\ UNCHANGED <<env, datavars>>

\* the widget returns
AnimateDone ==
    /\ At("animate")
    /\ InstallSys(advance(Executed(CurSys)))
    /\ UNCHANGED <<env, datavars>>

\* time passes between two passes
ClockTicks ==
    /\ calls = <<>>
    /\ controller = "anim"
    /\ anim' = [anim EXCEPT !.clock = (@ + 1) % Pow2(TickBits)]
    /\ UNCHANGED <<calls, refresh_needed, regions, identity, captured,
                   async_data, apply_data, pending, d, env, datavars>>

\* the controller returns
ControllerReturns ==
    /\ calls # <<>>
    /\ Top(CurSys).trav # NoTrav
    /\ Top(CurSys).trav.pc = Len(Code(controller)) + 1
    /\ InstallSys(route_event_done(CurSys))
    /\ UNCHANGED <<env, datavars>>

Init == DataInit /\ SysInit

\* the system was constructed with the first or the second controller
InitSys == DataInit /\ \E c \in {"routing", "async"} : SysStart(c)

\* the system was constructed with any of the controllers
InitApp == DataInit /\ \E c \in {"routing", "async", "signals"} : SysStart(c)

\* --- the specifications
Next ==
    \/ \E refresh \in BOOLEAN : BeginTraversal(refresh)
    \/ NamingContextBegin
    \/ \E k \in Keys, v \in Vals : NamedBlock(k, v)
    \/ \E k \in Keys : HandlerAborts(k)
    \/ EndTraversal
    \/ Throw
    \/ Unwind

\* every refresh pass runs to completion
Spec == Init /\ [][Next]_vars

NextAbort ==
    \/ \E refresh \in BOOLEAN : BeginTraversal(refresh)
    \/ NamingContextBegin
    \/ \E k \in AbortKeys, v \in Vals : NamedBlock(k, v)
    \/ \E k \in AbortKeys : HandlerAborts(k)
    \/ \E k \in AbortKeys : BodyThrowsInRefresh(k)
    \/ EndTraversal
    \/ Throw
    \/ ThrowInRefresh
    \/ Unwind

\* refresh passes may end with an exception
SpecAbort == Init /\ [][NextAbort]_vars

\* the application's list is empty: the tracked loop runs no iteration
NextFlow ==
    \/ \E refresh \in BOOLEAN : BeginTraversal(refresh)
    \/ \E c \in BOOLEAN, c2 \in BOOLEAN, k \in {0} \cup FlowKeys,
          manual \in BOOLEAN, v \in Ints : FlowIf(c, c2, k, manual, v)
    \/ FlowLoop(0, 1)
    \/ FlowEnd
    \/ \E k \in FlowKeys : DeleteNamedBlock(k)
    \/ Unwind

\* the data graph under the controller with tracked control flow
SpecFlow == Init /\ [][NextFlow]_vars

\* the application uses no named block and no inner alia_if
NextLoop ==
    \/ \E refresh \in BOOLEAN : BeginTraversal(refresh)
    \/ \E c \in BOOLEAN, v \in Ints : FlowIf(c, FALSE, 0, FALSE, v)
    \/ \E n \in Iters, v \in Ints : FlowLoop(n, v)
    \/ \E n \in Iters \ {MaxIter}, v \in Ints : FlowLoopThrows(n, v)
    \/ FlowEnd
    \/ Unwind

\* the data graph under the controller with the tracked loop
SpecLoop == Init /\ [][NextLoop]_vars

NextSwitch ==
    \/ \E refresh \in BOOLEAN : BeginTraversal(refresh)
    \/ \E x \in {0} \cup Cases, v \in Ints : Switch(x, v)
    \/ SwitchEnd
    \/ Unwind

\* the data graph under the controller with the tracked switch
SpecSwitch == Init /\ [][NextSwitch]_vars

\* the system was constructed with the fourth controller
InitNode == DataInit /\ SysStart("node")

NextNode ==
    \/ \E n \in Widgets : DispatchTargetedEvent(n)
    \/ DispatchEvent
    \/ RefreshSystem
    \/ CondChanges
    \/ IfWidgetSkipped
    \/ \E a \in IdentityAddrs : IfWidget(a)
    \/ ControllerReturns

\* a widget in a tracked if-block
SpecNode == InitNode /\ [][NextNode]_vars

\* the system was constructed with the fifth controller
InitAnim == DataInit /\ SysStart("anim")

NextAnim ==
    \/ DispatchEvent
    \/ RefreshSystem
    \/ RequestAnimationRefresh
    \/ \E delta \in Deltas : GetTicksLeft(delta)
    \/ AnimateDone
    \/ ClockTicks
    \/ ControllerReturns

\* a widget that animates
SpecAnim == InitAnim /\ [][NextAnim]_vars

\* the system was constructed with the controller of the Qt application
InitQt == DataInit /\ SysStart("qt")

NextQt ==
    \/ \E c \in BOOLEAN : QtRefresh(c)
    \/ QtUpdate

\* the layout of the Qt application over refresh passes
SpecQt == InitQt /\ [][NextQt]_vars

NextSys ==
    \/ \E n \in Widgets : DispatchTargetedEvent(n)
    \/ DispatchEvent
    \/ RefreshSystem
    \/ \E v \in Versions, a \in ArgIds : ReportResultLater(v, a)
    \/ \E a \in ArgIds : ChangeArg(a)
    \/ ArgValueChanges
    \/ RegionBegin
    \/ RegionEnd
    \/ Widget
    \/ AsyncNoLaunch
    \/ AsyncLaunch
    \/ AsyncLaunchThrows
    \/ ControllerReturns

\* external code calls report_result only when no traversal is running
SpecSys == InitSys /\ [][NextSys]_vars

NextApp ==
    \/ \E n \in Widgets : DispatchTargetedEvent(n)
    \/ DispatchEvent
    \/ RefreshSystem
    \/ \E v \in Versions, a \in ArgIds : ReportResultLater(v, a)
    \/ \E a \in ArgIds : ChangeArg(a)
    \/ ArgValueChanges
    \/ CondChanges
    \/ RegionBegin
    \/ RegionEnd
    \/ Widget
    \/ AsyncNoLaunch
    \/ AsyncLaunch
    \/ AsyncLaunchThrows
    \/ ApplySkipped
    \/ ApplyNoCall
    \/ \E threw \in BOOLEAN : ApplyCalls(threw)
    \/ ControllerReturns

\* the system runs either controller
SpecApp == InitApp /\ [][NextApp]_vars

NextSync ==
    \/ \E n \in Widgets : DispatchTargetedEvent(n)
    \/ DispatchEvent
    \/ RefreshSystem
    \/ \E v \in Versions, a \in ArgIds : ReportResultLater(v, a)
    \/ \E a \in ArgIds : ChangeArg(a)
    \/ ArgValueChanges
    \/ RegionBegin
    \/ RegionEnd
    \/ Widget
    \/ AsyncNoLaunch
    \/ AsyncLaunch
    \/ AsyncLaunchThrows
    \/ AsyncLaunchSync
    \/ ControllerReturns

\* a launcher may also call report_result before it returns
SpecSync == InitSys /\ [][NextSync]_vars

\* the system was constructed with one of the programs on identities and
\* signals
InitSig ==
    DataInit
    /\ \E c \in {"ids", "captured", "keyed", "lazy", "state", "actions",
                   "text"} : SysStart(c)

NextSig ==
    \/ \E a \in Addrs, v \in Ints : Assign(a, v)
    \/ \E x \in Ids : Capture(x)
    \/ Clear
    \/ \E x \in Ids, y \in Ids : Compare(x, y)
    \/ \E v \in Ints, w \in Ints, literal \in BOOLEAN :
           ValueSignals(v, w, literal)
    \/ \E key \in Ids : RefreshKeyedData(key)
    \/ \E v \in Ints : WriteKeyedData(v)
    \/ LazyConstruct
    \/ LazyRead
    \/ \E a \in ArgIds : ChangeArg(a)
    \/ ArgValueChanges
    \/ CondChanges
    \/ GetState
    \/ \E kind \in SignalKinds, v \in Ints : WriteSignal(kind, v)
    \/ PerformAction
    \/ WriteText

SpecSig == InitSig /\ [][NextSig]_vars

\* ------------------------------------------------------- what is observed
\* the ids of the named blocks of a named_block_ref_node list, in order
RECURSIVE ListKeys(_, _)
ListKeys(G, head) ==
    IF head \notin DOMAIN G.refs THEN <<>>
    ELSE <<G.nodes[G.refs[head].node].id>> \o ListKeys(G, G.refs[head].next)

\* the list of named blocks recorded for the root block
RecordedKeys(G) == ListKeys(G, G.root_block.named_blocks)

\* reference_count and active_count of every named_block_node
Counts(G) ==
    [n \in DOMAIN G.nodes |->
        <<G.nodes[n].reference_count, G.nodes[n].active_count>>]

\* the node that the controller's naming map holds for id k; the first map
\* of map_list is root_map_ of the scoped_data_traversal, the second is nc
NodeOf(G, k) == IF Len(G.maps) < 2 THEN NULL ELSE G.maps[2][k]

\* the value of the state slot of the block of node n
StateVal(G, n) ==
    IF n \in DOMAIN G.nodes /\ Len(G.nodes[n].block.nodes) >= 1
    THEN G.nodes[n].block.nodes[1].val ELSE NULL

\* the ids requested in a pass, in order, and those whose node was created
RECURSIVE NamedArgs(_)
NamedArgs(o) ==
    IF o = <<>> THEN <<>>
    ELSE (IF Head(o).op = "named_block" THEN <<Head(o).arg>> ELSE <<>>)
         \o NamedArgs(Tail(o))

CreatedKeys(o) ==
    {o[i].arg : i \in {j \in 1..Len(o) : o[j].op = "named_block" /\ o[j].is_new}}

\* the ids whose state slot was created, hence initialised, in a pass
InitialisedKeys(o) ==
    {o[i].arg : i \in {j \in 1..(Len(o) - 1) :
                          /\ o[j].op = "named_block"
                          /\ o[j + 1].op = "get_data"
                          /\ o[j + 1].is_new}}

IsPrefix(q, r) == Len(q) <= Len(r) /\ SubSeq(r, 1, Len(q)) = q

RECURSIVE IsSubsequence(_, _)
IsSubsequence(q, r) ==
    IF q = <<>> THEN TRUE
    ELSE IF r = <<>> THEN FALSE
    ELSE IF Head(q) = Head(r) THEN IsSubsequence(Tail(q), Tail(r))
    ELSE IsSubsequence(q, Tail(r))

\* the pass has so far made the requests the previous pass made
SameSoFar ==
    /\ Len(ops) <= Len(prevOps)
    /\ \A i \in 1..Len(ops) :
          ops[i].op = prevOps[i].op /\ ops[i].arg = prevOps[i].arg

\* the last pass was a refresh pass and ran to its end
RefreshDone == phase = "idle" /\ is_refresh /\ err = "none"

\* --------------------------------------------------------------- claims
\* C1 (slot reuse): in a refresh pass that makes the same requests as the
\* refresh pass before it, which ran to its end, no data node and no named-block node is
\* created: every request returns is-new = false and the slot or node that
\* the same request returned in the previous pass.
C1_SlotReuse ==
    (phase = "pass" /\ is_refresh /\ prevOps # <<>> /\ SameSoFar) =>
        /\ \A i \in 1..Len(ops) :
              ~ops[i].is_new /\ ops[i].res = prevOps[i].res
        /\ DOMAIN nodes = DOMAIN snap.nodes
        /\ Len(root_block.nodes) = Len(snap.root_block.nodes)
        /\ \A n \in DOMAIN nodes :
              Len(nodes[n].block.nodes) = Len(snap.nodes[n].block.nodes)

C1_Witness ==
    /\ phase = "pass" /\ is_refresh
    /\ Len(prevOps) = 8
    /\ Requests(ops) = prevOps
    /\ NamedArgs(ops) = <<2, 1>>

\* C2 (named-block GC): when a completed refresh pass ends, an id that was
\* recorded by the pass before and not requested in this one has its node
\* out of the naming map and freed, with no reference left to it; an id
\* recorded before and requested again keeps its node, not re-created, with
\* reference count 1 and its state slot unchanged and not initialised anew.
C2_NamedBlockGC ==
    RefreshDone =>
        \A k \in Keys :
            k \in Range(RecordedKeys(snap)) =>
                IF k \in Range(NamedArgs(ops))
                THEN /\ NodeOf(Cur, k) = NodeOf(snap, k)
                     /\ NodeOf(Cur, k) \in DOMAIN nodes
                     /\ k \notin CreatedKeys(ops)
                     /\ k \notin InitialisedKeys(ops)
                     /\ nodes[NodeOf(Cur, k)].reference_count = 1
                     /\ StateVal(Cur, NodeOf(Cur, k))
                            = StateVal(snap, NodeOf(snap, k))
                ELSE /\ NodeOf(Cur, k) = NULL
                     /\ NodeOf(snap, k) \notin DOMAIN nodes
                     /\ \A r \in DOMAIN refs : refs[r].node # NodeOf(snap, k)

C2_Witness ==
    /\ RefreshDone
    /\ RecordedKeys(snap) = <<1, 2, 3>>
    /\ NamedArgs(ops) = <<1, 3>>
    /\ StateVal(Cur, NodeOf(Cur, 1)) # NULL
    /\ StateVal(Cur, NodeOf(Cur, 3)) # NULL

\* C3 (reordering with GC enabled): when a completed refresh pass has
\* requested the ids the pass before recorded, in any order, no node was
\* created or freed, every node keeps its stored data (not initialised
\* anew), its reference count and its active count, and the recorded list is the order of this pass.
C3_ReorderKeepsNodes ==
    (RefreshDone /\ Range(NamedArgs(ops)) = Range(RecordedKeys(snap))) =>
        /\ CreatedKeys(ops) = {}
        /\ InitialisedKeys(ops) = {}
        /\ DOMAIN nodes = DOMAIN snap.nodes
        /\ \A n \in DOMAIN nodes : StateVal(Cur, n) = StateVal(snap, n)
        /\ Counts(Cur) = Counts(snap)
        /\ RecordedKeys(Cur) = NamedArgs(ops)

C3_Witness ==
    /\ RefreshDone
    /\ RecordedKeys(snap) = <<1, 2, 3>>
    /\ NamedArgs(ops) = <<3, 2, 1>>

\* the id recorded at the position the pass has reached, if any
NextRecorded ==
    LET R == RecordedKeys(snap)
        i == Len(NamedArgs(ops)) + 1
    IN IF i <= Len(R) THEN R[i] ELSE NULL

\* the step is the request of named block k
Requesting(k) ==
    /\ phase = "pass"
    /\ Len(ops') > Len(ops)
    /\ ops'[Len(ops) + 1].op = "named_block"
    /\ ops'[Len(ops) + 1].arg = k

\* C4 (out of order with GC disabled): a request, in a pass with GC
\* disabled, of an id that is not the next one recorded raises
\* named_block_out_of_order and creates no node and no reference.
C4_OutOfOrderRaises ==
    [][\A k \in Keys :
          (Requesting(k) /\ ~is_refresh /\ k # NextRecorded) =>
              /\ phase' = "unwinding"
              /\ err' = "named_block_out_of_order"
              /\ nodes' = nodes
              /\ refs' = refs
              /\ maps' = maps]_vars

C4_Witness ==
    /\ phase = "unwinding"
    /\ err = "named_block_out_of_order"
    /\ RecordedKeys(snap) = <<1, 3>>
    /\ NamedArgs(ops) = <<3>>

\* C5 as stated: with GC disabled the ordering violation is raised only when
\* the requests do not keep the recorded relative order, so a pass that
\* skips a recorded id is accepted.
C5_SubsequenceAccepted ==
    (~is_refresh /\ err = "named_block_out_of_order") =>
        ~IsSubsequence(NamedArgs(ops), RecordedKeys(snap))

\* C5 (amended): with GC disabled the requests of a pass are accepted
\* exactly as long as they are a prefix of the recorded list; the first
\* request that is not the next recorded id raises the ordering violation,
\* also when it only skips recorded ids.
C5_PrefixAccepted ==
    ~is_refresh =>
        (err = "named_block_out_of_order"
            <=> ~IsPrefix(NamedArgs(ops), RecordedKeys(snap)))

C5_Witness ==
    /\ phase = "idle" /\ ~is_refresh /\ err = "none"
    /\ RecordedKeys(snap) = <<1, 2, 3>>
    /\ NamedArgs(ops) = <<1, 2>>

\* C6 (GC disabled changes nothing): during and after a pass with GC
\* disabled the named-block nodes, their reference and active counts, the
\* reference nodes and the recorded list are as they were when the pass
\* began, whatever the pass requested and however it ended.
C6_GcOffFrame ==
    ~is_refresh =>
        /\ Counts(Cur) = Counts(snap)
        /\ DOMAIN refs = DOMAIN snap.refs
        /\ \A r \in DOMAIN refs : refs[r].node = snap.refs[r].node
        /\ RecordedKeys(Cur) = RecordedKeys(snap)

C6_Witness ==
    /\ phase = "idle" /\ ~is_refresh
    /\ err = "named_block_out_of_order"
    /\ RecordedKeys(snap) = <<1, 2, 3>>
    /\ NamedArgs(ops) = <<1, 3>>

\* C7: after a pass that an exception cut short, the recorded list and
\* every node's reference count and active count are as before the pass.
C7_AbortKeepsRecord ==
    (phase = "idle" /\ err # "none") =>
        /\ RecordedKeys(Cur) = RecordedKeys(snap)
        /\ Counts(Cur) = Counts(snap)

\* the traversals in progress: the activations that are inside route_event
InProgress == {i \in DOMAIN calls : calls[i].trav # NoTrav}

\* C8 (targeted dispatch): during and after dispatch_targeted_event with the
\* id captured for node N, the handlers invoked by the event traversal are
\* at most N's, once; the event traversal executes no statement of the
\* controller after a handler has run; and when the event traversal is over
\* N's handler has run exactly once and the traversal was aborted.
C8_TargetedDispatch ==
    d.fn = "dispatch_targeted_event" =>
        /\ IsPrefix(d.handled, <<d.target>>)
        /\ d.after = 0
        /\ d.event_end # "running" =>
              d.handled = <<d.target>> /\ d.event_end = "aborted"

C8_Witness ==
    /\ d.fn = "dispatch_targeted_event"
    /\ d.target = 2
    /\ captured[2].region = 2 /\ regions[2] = 1
    /\ d.handled = <<2>>
    /\ d.event_end = "aborted"
    /\ d.returned

\* C9 (abort is consumed, one refresh follows): traversal_aborted never
\* leaves a dispatch function; dispatch_event and dispatch_targeted_event
\* start at most one refresh traversal, with GC and cache clearing enabled,
\* and only once the event traversal is over (aborted or run to its end);
\* when the dispatch function returns exactly one refresh traversal has been
\* started and has run to its end.
C9_AbortConsumedOneRefresh ==
    /\ d.propagated = "none"
    /\ d.fn \in {"dispatch_event", "dispatch_targeted_event"} =>
          /\ d.begun <= 1
          /\ d.gc
          /\ d.begun = 1 => d.event_end \in {"aborted", "completed"}
          /\ d.returned =>
                /\ d.event_end \in {"aborted", "completed"}
                /\ d.begun = 1
                /\ d.done = 1

C9_Witness ==
    /\ d.fn = "dispatch_targeted_event"
    /\ d.returned
    /\ d.propagated = "none"
    /\ d.event_end = "aborted"
    /\ d.begun = 1 /\ d.done = 1
    /\ calls = <<>>

C11_StaleResultDiscarded ==
    async_data.status = "COMPLETE" =>
        async_data.result = async_data.cached_id

\* C12 (launched once): once the launcher has been given the callback the
\* status is LAUNCHED until a result is reported or the launcher has thrown,
\* and the launcher is called at most once between two captures of an
\* argument identity unless a result was reported in between.
C12_LaunchedOnce ==
    /\ async_data.invoked <= 1
    /\ (async_data.invoked = 1 /\ async_data.status # "FAILED") =>
          async_data.status = "LAUNCHED"

\* a refresh traversal of the third controller has just executed its
\* alia_if statement
PastApply ==
    /\ controller = "signals"
    /\ calls # <<>>
    /\ Top(CurSys).trav.event_type = "refresh_event"
    /\ Top(CurSys).trav.pc = 2

\* C13 as claimed: f is called only on refresh passes, with the argument
\* having a value and the status UNCOMPUTED; after a call that returned, f
\* is called again only after the argument changed identity or lost its
\* value; and a refresh pass that executes apply with the argument having a
\* value leaves the status computed.
C13_ApplyCallsOnChange ==
    /\ apply_data.at.refresh /\ apply_data.at.has
    /\ apply_data.at.status = "UNCOMPUTED"
    /\ ~apply_data.g.after_fail =>
          apply_data.g.why \in {"never", "first", "id", "lost"}
    /\ (PastApply /\ cond /\ argHas) => apply_data.status # "UNCOMPUTED"

\* C13 (apply calls f on change or after its cache was cleared): as C13
\* above, except that f is also called again, with nothing changed in the
\* argument, on the first refresh pass that executes apply after a refresh
\* pass on which its block was inactive, which cleared its cached data.
C13_ApplyCallsOnChangeOrCleared ==
    /\ apply_data.at.refresh /\ apply_data.at.has
    /\ apply_data.at.status = "UNCOMPUTED"
    /\ ~apply_data.g.after_fail =>
          apply_data.g.why \in {"never", "first", "id", "lost", "cleared"}
    /\ (PastApply /\ cond /\ argHas) => apply_data.status # "UNCOMPUTED"

C13_Witness ==
    /\ PastApply /\ cond /\ argHas
    /\ apply_data.status = "READY"
    /\ apply_data.g.why = "lost"
    /\ ~apply_data.g.after_fail
    /\ apply_data.result_version = 1
    /\ apply_data.result = argId

\* C14 as claimed: an exception of f or of the launcher does not leave the
\* traversal, which goes on; the status is FAILED and the signal has no
\* value; and the call that follows a call that threw is made only after
\* the argument changed identity.
C14_FailureCaptured ==
    /\ d.propagated = "none"
    /\ apply_data.status = "FAILED" => ~apply_signal(apply_data).has
    /\ (PastApply /\ apply_data.g.threw /\ apply_data.g.cause = "none") =>
          apply_data.status = "FAILED"
    /\ apply_data.g.after_fail => apply_data.g.why = "id"
    /\ async_data.g.after_fail => async_data.g.why = "id"

\* C14 (failures are captured, and retried after a reset): as C14 above,
\* except that the call that follows a call that threw is made after any
\* reset of the status: the argument changed identity or lost its value,
\* or the cached data was cleared.
C14_FailureCapturedUntilReset ==
    /\ d.propagated = "none"
    /\ apply_data.status = "FAILED" => ~apply_signal(apply_data).has
    /\ (PastApply /\ apply_data.g.threw /\ apply_data.g.cause = "none") =>
          apply_data.status = "FAILED"
    /\ apply_data.g.after_fail =>
          apply_data.g.why \in {"id", "lost", "cleared"}
    /\ async_data.g.after_fail =>
          async_data.g.why \in {"id", "lost", "cleared"}

C14_Witness ==
    /\ PastApply
    /\ apply_data.status = "FAILED"
    /\ apply_data.g.threw
    /\ apply_data.g.after_fail
    /\ apply_data.g.why = "id"
    /\ d.propagated = "none"

\* C15: of two successive refresh passes on which the apply signal has a
\* value, the second reports another value_id than the first if f was
\* called in between, and the same value_id if it was not.
C15_IdChangesIffRecomputed == ~apply_data.reused /\ ~apply_data.changed

\* C16: a lazy_apply signal has a value iff all its arguments do, its
\* identity is the combination of the argument identities, and read()
\* returns f of the arguments' current values, f being invoked once per
\* distinct tuple of argument identities: no read returns anything but f
\* of the current values, and f is never invoked for the tuple it was
\* last invoked for.
C16_LazyMemoPerIdentity ==
    LET s == lazy_apply2_signal(lazy, mem)
    IN  /\ s.has_value = argHas
        /\ s.value_id = <<make_id_by_reference(1), make_id(argId)>>
        /\ ~lazy.stale
        /\ ~lazy.again

\* C17: a value signal always has a value and its value_id is a fixed
\* sentinel that does not depend on the carried value: two value signals
\* report equal identities whatever they carry.
C17_ValueIdIsSentinel ==
    out.op \in {"value", "literal"} => out.has /\ out.eq

\* C17, amended: a value signal always has a value; a string literal
\* signal reports unit_id whatever its text, and value(v) of any other
\* type reports the identity of the carried value, so two of them report
\* equal identities exactly when they carry equal values.
C17_ValueIdIsValue ==
    /\ out.op \in {"value", "literal"} => out.has
    /\ out.op = "literal" => out.a = unit_id /\ out.b = unit_id /\ out.eq
    /\ out.op = "value" => (out.eq <=> out.va = out.vb)

\* two value signals carrying different values reported different
\* identities
C17_Witness == out.op = "value" /\ out.va # out.vb /\ out.has /\ ~out.eq

\* C18: a keyed-data signal that was refreshed with a key and written has
\* a value, the one written, on every later refresh that presents an
\* equal key; the first refresh that presents a different key makes it
\* lose its value, and it has none until the next write, which always
\* succeeds and gives it a value again.
C18_KeyedDataValidity ==
    LET s == keyed_data_signal(key_data)
    IN  /\ s.has_value = key_data.expected
        /\ s.has_value => s.read = key_data.written
        /\ key_data.last = "write" => s.has_value
        /\ key_data.last = "other" => ~s.has_value

\* written under a key by reference, the variable the key points at
\* unchanged or changed back, and refreshed with that key again
C18_Witness ==
    /\ key_data.last = "same"
    /\ key_data.presented[1] = "simple_id_by_reference"
    /\ keyed_data_signal(key_data).has_value
    /\ keyed_data_signal(key_data).read = 1

\* C19: after capture(x) a captured_id matches x; after a later
\* capture(y) with y different from x it matches y and no longer x; one
\* that never captured anything, or was cleared, matches no identity, not
\* even null_id; and what it matches does not change when the value that
\* a by-reference x pointed at changes afterwards.  So it matches exactly
\* the identities that identify what the last captured one identified
\* when it was captured.
C19_CapturedIdMatches ==
    /\ id_.from = NoId =>
           /\ id_.id = NoId
           /\ \A z \in Ids : ~matches(id_.id, z, mem)
    /\ id_.from # NoId =>
           \A z \in Ids :
               matches(id_.id, z, mem)
                   <=> Content(z, mem) = <<id_.from.type, id_.was>>

\* an identity by reference was captured and the value it points at has
\* changed since: the captured_id matches the old value, not the source
C19_Witness ==
    /\ id_.from \in {make_id_by_reference(a) : a \in Addrs}
    /\ mem[id_.from.ptr] # id_.was
    /\ matches(id_.id, stored_id(id_.was), mem)
    /\ ~matches(id_.id, id_.from, mem)
    /\ ~matches(id_.id, make_id(id_.was), mem)

\* C20: equality of identities is reflexive, and two identities of
\* different concrete types are never equal whatever they hold: an
\* identity by value and one by reference of the same value are unequal,
\* and null_id is not unit_id.
C20_EqualityByType ==
    out.op = "==" =>
        /\ out.a = out.b => out.eq
        /\ out.a.type # out.b.type => ~out.eq

\* an identity by value was compared with one by reference of the same
\* value, and they were unequal
C20_Witness ==
    /\ out.op = "=="
    /\ out.a.type = "simple_id"
    /\ out.b.type = "simple_id_by_reference"
    /\ out.va = out.vb
    /\ ~out.eq

\* C21: write_signal on a signal that is not ready to write writes
\* nothing and raises nothing: the value and its version are as they
\* were; on a signal that is ready to write, the value is written.
C21_WriteSignalNoOp ==
    state.last.op = "write_signal" =>
        /\ ~state.last.ready => state.last.after = state.last.before
        /\ state.last.ready => state.last.after[1] = state.last.v

\* write_signal on a masked state signal whose condition was false or
\* absent, with another value than the state held
C21_Witness ==
    /\ state.last.op = "write_signal"
    /\ state.last.kind = "masked state"
    /\ ~state.last.ready
    /\ state.last.before[2] # 0
    /\ state.last.v # state.last.before[1]
    /\ state.last.after = state.last.before

\* C28: mask(signal, condition) has a value iff the condition has a
\* value, that value is true and the wrapped signal has a value; it is
\* ready to write iff the condition has a value, is true and the wrapped
\* signal is ready to write; when the condition is absent or false its
\* value_id is null_id and write_signal through it leaves the wrapped
\* signal as it was.
C28_MaskSuppresses ==
    /\ \A primary \in {state_signal(state), empty_signal} :
           LET s == masking_signal(primary, mask_)
           IN  /\ s.has_value <=> (argHas /\ cond /\ primary.has_value)
               /\ s.ready_to_write
                      <=> (argHas /\ cond /\ primary.ready_to_write)
               /\ ~(argHas /\ cond) => s.value_id = null_id
    /\ (/\ state.last.op = "write_signal"
        /\ state.last.kind \in {"masked state", "masked empty"}
        /\ ~state.last.mask)
           => state.last.after = state.last.before

\* the state has a value, the condition has the value false, and the last
\* write_signal went through the mask while the condition was absent or
\* false
C28_Witness ==
    /\ state.version_ # 0
    /\ argHas /\ ~cond
    /\ ~masking_signal(state_signal(state), mask_).has_value
    /\ state.last.kind = "masked state"
    /\ ~state.last.mask
    /\ state.last.v # state.last.before[1]

\* C30: the signal of get_state has no value until the initial value
\* signal has a value on a pass or a value is written; from then on it
\* has a value on every later pass, its value is the initial one or the
\* last one written, whatever the initial value signal becomes, and every
\* write changes its value_id.
C30_StateInitialisedOnce ==
    LET s == state_signal(state)
    IN  /\ s.has_value <=> state.initialized
        /\ s.has_value => s.read = state.expected
        /\ (state.last.op = "write_signal" /\ state.last.ready)
               => make_id(state.last.after[2]) # make_id(state.last.before[2])

\* initialised from the initial value signal, written since, and the
\* initial value signal has another value now
C30_Witness ==
    /\ state.version_ = 2
    /\ state.last.op = "write_signal" /\ state.last.ready
    /\ state.last.before[2] = 1
    /\ argHas /\ argId # state.value_ /\ argId # state.last.before[1]

\* the values of the get_data slots of a block and of the blocks nested in
\* it, by position
RECURSIVE StateOf(_)
StateOf(b) ==
    [i \in 1..Len(b.nodes) |->
        IF b.nodes[i].type = "state" THEN <<"state", b.nodes[i].val>>
        ELSE IF b.nodes[i].type = "block"
        THEN <<"block", StateOf(b.nodes[i].block)>>
        ELSE <<b.nodes[i].type>>]

\* no get_cached_data slot of the block or of a block nested in it holds
\* data, and no reference of their lists is active
RECURSIVE CacheCleared(_, _)
CacheCleared(G, b) ==
    /\ \A i \in 1..Len(b.nodes) :
          /\ b.nodes[i].type = "cached" => b.nodes[i].val = 0
          /\ b.nodes[i].type = "block" => CacheCleared(G, b.nodes[i].block)
    /\ \A r \in Range(ChainFrom(G.refs, b.named_blocks, <<>>)) :
          ~G.refs[r].active

\* C22: a false condition of a tracked if-block on a refresh pass frees the
\* cached data of its block and of the blocks nested in it and deactivates
\* the named blocks it references, while the get_data slots of the block,
\* of the nested blocks and of the named blocks keep their values; when
\* the condition is true on a later pass, get_data returns the same slot
\* with the value it had.
C22_CacheClearing ==
    (Len(ops) >= 1 /\ ops[1].op = "if") =>
        /\ (is_refresh /\ ~ops[1].arg) =>
              /\ CacheCleared(Cur, OuterIf(Cur))
              /\ StateOf(OuterIf(Cur)) = StateOf(OuterIf(snap))
              /\ \A n \in DOMAIN snap.nodes :
                    /\ n \in DOMAIN nodes
                    /\ StateOf(nodes[n].block) = StateOf(snap.nodes[n].block)
        /\ (ops[1].arg /\ OuterIf(snap).nodes # <<>>) =>
              /\ ~ops[1].is_new
              /\ ops[1].res = OuterIf(snap).nodes[1].val

\* the condition is true on a pass that found the block cleared: the
\* cached slots of the block and of the nested block empty, the named
\* block referenced and inactive, and the state as it was
C22_Witness ==
    /\ Len(ops) >= 1 /\ ops[1].op = "if" /\ ops[1].arg
    /\ Len(OuterIf(snap).nodes) = 4
    /\ OuterIf(snap).cache_clear
    /\ OuterIf(snap).nodes[1].val = 1
    /\ OuterIf(snap).nodes[2].val = 0
    /\ Len(OuterIf(snap).nodes[3].block.nodes) = 1
    /\ OuterIf(snap).nodes[3].block.nodes[1].val = 0
    /\ OuterIf(snap).named_blocks # NULL
    /\ ~snap.refs[OuterIf(snap).named_blocks].active
    /\ ~ops[1].is_new /\ ops[1].res = 1

\* the named block node n, which the graph held when the operation began,
\* has been freed
Freed(n) == n \notin DOMAIN nodes

\* its reference count was not zero when the operation began and is now
Dropped(n) ==
    /\ snap.nodes[n].reference_count > 0
    /\ n \in DOMAIN nodes => nodes[n].reference_count = 0

\* its active count was not zero when the operation began and is now
Deactivated(n) ==
    /\ snap.nodes[n].active_count > 0
    /\ n \in DOMAIN nodes
    /\ nodes[n].active_count = 0

\* no get_cached_data slot of the block holds data
CachedEmpty(b) ==
    \A i \in 1..Len(b.nodes) : b.nodes[i].type = "cached" => b.nodes[i].val = 0

\* what C23 says of every node but for when it is freed
NodeKept ==
    /\ \A n \in DOMAIN snap.nodes :
          /\ Deactivated(n) => CachedEmpty(nodes[n].block)
          /\ Freed(n) => snap.maps[snap.nodes[n].map][snap.nodes[n].id] = n
                         /\ maps[snap.nodes[n].map][snap.nodes[n].id] = NULL
    /\ \A n \in DOMAIN nodes :
          nodes[n].reference_count > 0
              => maps[nodes[n].map][nodes[n].id] = n

C24_ManualDelete ==
    \A n \in DOMAIN snap.nodes :
        LET old == snap.nodes[n]
            linked == n \in DOMAIN nodes /\ maps[old.map][old.id] = n
            intact == StateOf(nodes[n].block) = StateOf(old.block)
        IN  /\ (Dropped(n) /\ old.manual_delete)
                => linked /\ intact /\ CachedEmpty(nodes[n].block)
            /\ (Dropped(n) /\ ~old.manual_delete) => Freed(n)
            /\ (/\ phase = "pass" /\ is_refresh /\ Len(ops) >= 1
                /\ old.id \in usedKeys
                /\ old.reference_count = 0)
                => linked /\ intact /\ nodes[n].reference_count = 1
            /\ (/\ Len(ops) = 1
                /\ ops[1].op = "delete_named_block"
                /\ ops[1].arg = old.id)
                => IF old.reference_count = 0
                   THEN Freed(n) /\ maps[old.map][old.id] = NULL
                   ELSE /\ linked
                        /\ nodes[n] = [old EXCEPT !.manual_delete = FALSE]

\* a refresh pass asks for the id of a manual-delete node that nothing
\* referenced when the pass began, and gets the node with its state
C24_Witness ==
    /\ phase = "pass" /\ is_refresh /\ Len(ops) >= 1
    /\ \E n \in DOMAIN snap.nodes :
          /\ snap.nodes[n].manual_delete
          /\ snap.nodes[n].reference_count = 0
          /\ snap.nodes[n].id \in usedKeys
          /\ snap.nodes[n].block.nodes[1].val = 1
          /\ CachedEmpty(snap.nodes[n].block)
          /\ nodes[n].reference_count = 1
          /\ nodes[n].block.nodes[1].val = 1
          /\ ~CachedEmpty(nodes[n].block)

\* C26: get_node_id returns the same token at the same position on every
\* pass, also after the enclosing if-block was inactive on a refresh pass:
\* the routable_node_id that a widget captured once holds the identity the
\* widget has now.
C26_NodeIdStable ==
    \A n \in Widgets :
        (is_valid(captured[n]) /\ identity[n] # NULL)
            => captured[n].id = identity[n]

\* the regions whose scope encloses widget n in the controller's text
Enclosing(n) ==
    {r \in RegionIds :
        \E i, j, k \in DOMAIN Program :
            /\ i < j /\ j < k
            /\ Program[i] = [op |-> "region_begin", arg |-> r]
            /\ Program[j] = [op |-> "widget", arg |-> n]
            /\ Program[k] = [op |-> "region_end", arg |-> r]}

\* C27: in a targeted dispatch a scoped routing region is relevant iff its
\* region is on the parent chain from the root to the region of the
\* target, that region included, and the chain is matched from the root
\* on as the regions are entered; in a dispatch without a target, and in a
\* refresh, every region is relevant.
C27_RoutingRelevance ==
    (controller = "routing" /\ calls # <<>> /\ Top(CurSys).trav # NoTrav) =>
        LET tr == Top(CurSys).trav
            RegionOf(i) == IF i = Len(tr.scopes) THEN tr.active_region
                           ELSE tr.scopes[i + 1].parent_
            chain == route_event_(regions, captured[d.target].region, <<>>)
        IN  IF ~tr.targeted
            THEN \A i \in 1..Len(tr.scopes) : tr.scopes[i].is_relevant_
            ELSE /\ Range(chain) = Enclosing(d.target)
                 /\ \A i \in 1..Len(tr.scopes) :
                       tr.scopes[i].is_relevant_
                           <=> RegionOf(i) \in Range(chain)
                 /\ \E k \in 0..Len(chain) :
                       /\ tr.path_to_target = SubSeq(chain, k + 1, Len(chain))
                       /\ \A i \in 1..Len(tr.scopes) :
                             tr.scopes[i].is_relevant_
                                 => RegionOf(i) \in Range(SubSeq(chain, 1, k))

\* a click for widget 3, whose region is the first: the traversal is in the
\* second region, nested in the first, which is relevant while the second
\* is not
C27_Witness ==
    /\ controller = "routing" /\ calls # <<>>
    /\ Top(CurSys).trav.targeted
    /\ d.target = 3
    /\ Top(CurSys).trav.active_region = 2
    /\ Len(Top(CurSys).trav.scopes) = 2
    /\ Top(CurSys).trav.scopes[1].is_relevant_
    /\ ~Top(CurSys).trav.scopes[2].is_relevant_
    /\ Top(CurSys).trav.path_to_target = <<>>

\* every data node of the block old is in the block new, at its position and
\* with its value, and so for the blocks nested in it
RECURSIVE Preserved(_, _)
Preserved(old, new) ==
    /\ Len(new.nodes) >= Len(old.nodes)
    /\ \A i \in 1..Len(old.nodes) :
          /\ new.nodes[i].type = old.nodes[i].type
          /\ old.nodes[i].type \in {"state", "map"}
                 => new.nodes[i].val = old.nodes[i].val
          /\ (old.nodes[i].type = "cached" /\ old.nodes[i].val # 0)
                 => new.nodes[i].val = old.nodes[i].val
          /\ old.nodes[i].type = "block"
                 => Preserved(old.nodes[i].block, new.nodes[i].block)

\* C29: a traversal for an event other than refresh frees and clears
\* nothing: every data node, named block node and reference that the graph
\* held when the pass began is still there, with its value, whatever
\* control flow the pass takes.
C29_EventPassKeepsData ==
    (~is_refresh /\ phase # "idle") =>
        /\ Preserved(snap.root_block, root_block)
        /\ \A n \in DOMAIN snap.nodes :
              /\ n \in DOMAIN nodes
              /\ Preserved(snap.nodes[n].block, nodes[n].block)
        /\ \A r \in DOMAIN snap.refs :
              /\ r \in DOMAIN refs
              /\ refs[r].active = snap.refs[r].active

\* C25: the references that an interrupted pass leaves outside every list
\* are released by the next pass that completes with GC enabled: after
\* such a pass every named block node is one whose key the pass requested,
\* and every reference is in the list of some block.
C25_InterruptedRefsReleased ==
    (phase = "idle" /\ is_refresh /\ err = "none") =>
        /\ \A n \in DOMAIN nodes : nodes[n].id \in usedKeys
        /\ DOMAIN refs = Range(Reachable(Cur))

\* C31: a combined action (first, second) is ready iff both are; performing
\* it reads the sources of both actions before either writes, then does
\* the write of first and then that of second, each with the value its
\* source had before, so that (a <<= b, b <<= a) swaps a and b;
\* perform_action on an action that is not ready reads and writes nothing.
C31_ActionSequencing ==
    out.op = "perform" =>
        LET Rdy(a) == a.source # NULL /\ a.sink # NULL
            a1 == out.first
            a2 == out.second
            l == out.log
        IN  /\ out.ready <=> (Rdy(a1) /\ Rdy(a2))
            /\ ~out.ready => (l = <<>> /\ out.after = out.before)
            /\ out.ready =>
                  /\ Len(l) = 4
                  /\ {l[1], l[2]} = {<<"read", a1.source, out.before[a1.source]>>,
                                     <<"read", a2.source, out.before[a2.source]>>}
                  /\ l[3] = <<"write", a1.sink, out.before[a1.source]>>
                  /\ l[4] = <<"write", a2.sink, out.before[a2.source]>>
                  /\ out.after = [[out.before EXCEPT ![a1.sink] = out.before[a1.source]]
                                     EXCEPT ![a2.sink] = out.before[a2.source]]

\* (a <<= b, b <<= a) was performed on variables of different values
C31_Witness ==
    /\ out.op = "perform" /\ out.ready
    /\ out.first = copy_action(1, 2) /\ out.second = copy_action(2, 1)
    /\ out.before[1] # out.before[2]
    /\ out.after[1] = out.before[2] /\ out.after[2] = out.before[1]

\* what a text denotes: an optional minus sign and decimal digits denote
\* an integer, any other text is malformed
WellFormed(str) ==
    LET ds == IF str # <<>> /\ str[1] = "-" THEN Tail(str) ELSE str
    IN  ds # <<>> /\ \A i \in 1..Len(ds) : ds[i] \in Digit

Denoted(str) ==
    IF str[1] = "-" THEN 0 - magnitude(Tail(str)) ELSE magnitude(str)

InRange(T, z) ==
    IF T.signed THEN 0 - Pow2(T.bits - 1) <= z /\ z <= Pow2(T.bits - 1) - 1
    ELSE 0 <= z /\ z <= Pow2(T.bits) - 1

ParsesAs(T, str) == WellFormed(str) /\ InRange(T, Denoted(str))

\* C32: writing through a bidirectional text signal a text that is
\* malformed, or that denotes an integer outside the range of the wrapped
\* type, raises validation_error and leaves the wrapped signal, the
\* stored input value, the output text and the output version unchanged.
C32_InvalidTextRejected ==
    (out.op = "write_text" /\ ~ParsesAs(out.type, out.str)) =>
        (out.raised = "validation_error" /\ out.after = out.before)

\* the data block that iteration i of the loop uses, b being the block of
\* the loop_block: each iteration's block holds the next one's first
RECURSIVE IterBlock(_, _)
IterBlock(b, i) ==
    IF i = 0 THEN b
    ELSE IF b.nodes = <<>> THEN EmptyBlock
    ELSE IterBlock(b.nodes[1].block, i - 1)

LoopNow == Loop([root_block |-> root_block])

CaseNode(G, id) ==
    IF Len(G.root_block.nodes) < 2 THEN NULL
    ELSE G.maps[G.root_block.nodes[2].val][id]

C35_AnimationRequests ==
    controller = "anim" =>
        /\ refresh_needed <=> anim.requests > 0
        /\ anim.external_calls =
              IF anim.external /\ anim.requests > 0 THEN 1 ELSE 0

\* a second request since refresh_system was called, with an external
\* interface
C35_Witness ==
    /\ controller = "anim" /\ anim.external
    /\ anim.requests = 2 /\ anim.external_calls = 1 /\ refresh_needed

\* C36: get_raw_animation_ticks_left returns the distance from the tick
\* counter to end_tick when end_tick is ahead of it and 0 when end_tick is
\* the tick counter or behind it, for every distance of less than half the
\* counter's range and wherever the counter wraps; it requests a refresh
\* exactly when the distance is positive and the pass is a refresh pass.
C36_TicksLeft ==
    (controller = "anim" /\ anim.result.asked) =>
        /\ anim.result.left =
              IF anim.result.delta > 0 THEN anim.result.delta ELSE 0
        /\ anim.result.requested <=>
              (anim.result.delta > 0 /\ anim.result.refresh)

\* an end_tick beyond the wraparound of the counter, in a refresh pass
C36_Witness ==
    /\ controller = "anim" /\ anim.result.asked
    /\ anim.result.delta > 0 /\ anim.result.refresh
    /\ anim.clock + anim.result.delta >= Pow2(TickBits)
    /\ anim.result.left = anim.result.delta /\ anim.result.requested

\* C37: between traversals every named block node's reference_count is
\* the number of reference nodes in the recorded lists of data blocks
\* that point to it, its active_count is the number of those whose active
\* flag is set, and 0 <= active_count <= reference_count.
C37_ReferenceCounts ==
    phase = "idle" =>
        \A n \in DOMAIN nodes :
            LET R == {r \in Range(Reachable(Cur)) : refs[r].node = n}
            IN  /\ nodes[n].reference_count = Cardinality(R)
                /\ nodes[n].active_count =
                      Cardinality({r \in R : refs[r].active})
                /\ 0 <= nodes[n].active_count
                /\ nodes[n].active_count <= nodes[n].reference_count

RECURSIVE NoLiveCached(_)
NoLiveCached(b) ==
    \A i \in 1..Len(b.nodes) :
        /\ b.nodes[i].type = "cached" => b.nodes[i].val = 0
        /\ b.nodes[i].type = "block" => NoLiveCached(b.nodes[i].block)

\* the references the block records are inactive
RefsInactive(G, b) ==
    \A r \in Range(ChainFrom(G.refs, b.named_blocks, <<>>)) : ~G.refs[r].active

\* the block b, and every block nested in it by position, holds no live
\* cached data and records no active reference if its flag is set
RECURSIVE FlagKept(_, _)
FlagKept(G, b) ==
    /\ b.cache_clear => (NoLiveCached(b) /\ RefsInactive(G, b))
    /\ \A i \in 1..Len(b.nodes) :
          b.nodes[i].type = "block" => FlagKept(G, b.nodes[i].block)

\* C39: after every completed refresh pass, a data block whose cache_clear
\* flag is set holds no live cached data in its own nodes or in a block
\* nested in it by position and records only inactive references; a named
\* block node whose active count is 0 holds no live cached data; and
\* clear_cached_data on a block whose flag is set changes nothing.
C39_CacheClearFlag ==
    (phase = "idle" /\ is_refresh /\ err = "none") =>
        /\ FlagKept(Cur, root_block)
        /\ root_block.cache_clear => clear_cached_data(Cur, RootAddr) = Cur
        /\ \A n \in DOMAIN nodes :
              /\ FlagKept(Cur, nodes[n].block)
              /\ nodes[n].active_count = 0 => NoLiveCached(nodes[n].block)
              /\ nodes[n].block.cache_clear
                    => clear_cached_data(Cur, NodeBlock(n)) = Cur

\* the containers above the container n
RECURSIVE Ancestors(_, _)
Ancestors(n, acc) ==
    IF qt.obj[n].parent \notin Containers \/ qt.obj[n].parent \in acc THEN acc
    ELSE Ancestors(qt.obj[n].parent, acc \cup {qt.obj[n].parent})

\* the containers the pass went through
InTree == {n \in Containers : n = qt.root \/ (n = "C" /\ qt.obj["R"].live
                                               /\ qt.obj["R"].children = "C")}

\* the containers whose list of children is not the one they had when
\* the pass began (a container made in this pass had none)
Changed == {n \in InTree : Children(qt)[n] # qt.before[n]}

\* C40: when the controller has returned, every dirty container of the
\* tree has only dirty ancestors; the update from the root then reaches
\* every container whose list of children the pass changed and rebuilds
\* its children, and every container it reached is clean afterwards.
C40_DirtyPropagation ==
    controller = "qt" =>
        /\ qt.stage = "built" =>
              \A n \in InTree :
                  qt.obj[n].dirty => \A a \in Ancestors(n, {}) : qt.obj[a].dirty
        /\ (qt.stage = "idle" /\ qt.root # "null") =>
              /\ \A n \in Changed : n \in qt.reached /\ n \in qt.rebuilt
              /\ \A n \in qt.reached : ~qt.obj[n].dirty

====
